---------------------------- MODULE Spec2Model ----------------------------
(***************************************************************************)
(* Bank-statement parsers of packages/server/src/parsers: the Kotak and    *)
(* HDFC dialect extractors, their balance reconciliation passes, the       *)
(* suspicious-amount flagger, the sweep normaliser and the template        *)
(* player.                                                                 *)
(*                                                                         *)
(* Money is counted in tenths of a currency unit (Scale tenths = 1 unit),  *)
(* so that the sub-unit differences the reconciliation tolerance is about  *)
(* exist in the model.  Python's None is the reserved value None for       *)
(* numbers and dates and NoneS for strings.  A key a transaction dict does *)
(* not carry is modelled as that field holding None / NoneS / FALSE.       *)
(***************************************************************************)
EXTENDS Integers, Sequences, FiniteSets, TLC

VARIABLES
    pc,                    \* position of the component under check
    input,                 \* what the component was called with
    transactions,          \* the list of transaction dicts being worked on
    pass1,                 \* the list as the first reconciliation pass left it
    idx,                   \* loop position of handle_sweep_transfers
    regular_transactions,  \* handle_sweep_transfers: positions of the main ledger
    sweep_transactions,    \* handle_sweep_transfers: positions of the sweep list
    cumulative_sweep,      \* handle_sweep_transfers: running signed sweep total
    table_transactions,    \* HDFC main: what the fallback extractor returned
    errors,                \* template player: the row errors recorded so far
    rows_skipped,          \* template player: number of rows not emitted
    start_row,             \* template player: index of the first data row
    result,                \* template player: the dict the function returned
    metadata,              \* HDFC main: the account metadata dict
    stdout,                \* the JSON payloads printed, in order
    exit_status,           \* the status the process ended with
    handles                \* the document handles that are open

vars == <<pc, input, transactions, pass1, idx, regular_transactions,
          sweep_transactions, cumulative_sweep, table_transactions, errors,
          rows_skipped, start_row, result, metadata, stdout, exit_status,
          handles>>

sweepVars == <<idx, regular_transactions, sweep_transactions, cumulative_sweep>>

mainVars == <<table_transactions>>

playerVars == <<errors, rows_skipped, start_row>>

invokeVars == <<result, metadata, stdout, exit_status, handles>>

-----------------------------------------------------------------------------
(* Bounds of the model *)

MaxTxns == 3

-----------------------------------------------------------------------------
(* Values *)

None == 0 - 536870912
NoneS == "None"

Scale == 10

Abs(x) == IF x < 0 THEN 0 - x ELSE x

SeqsUpTo(S, n) == UNION {[1..k -> S] : k \in 0..n}

\* a * den >= num * b  and  a * den <= num * b, for den, num > 0 and b >= 0,
\* by division so that large amounts stay inside the integer range
RatioAtLeast(a, b, num, den) == (a * den) \div num >= b
RatioAtMost(a, b, num, den) == ((a * den) + (num - 1)) \div num <= b

\* A transaction dict.  description is [lead, body]: the date-shaped tokens
\* (dd/mm/yy, as <<dd, mm, yy>>) the text starts with, then the rest of the
\* text as a sequence of upper-cased words.
Desc(lead, body) == [lead |-> lead, body |-> body]

\* suspiciousReason: the message, and the two digits it quotes (None if none)
Reason(text, digits) == [text |-> text, digits |-> digits]
NoReason == Reason(NoneS, None)

\* a local name that has not been assigned, and one that holds a value
NotRun == [bound |-> FALSE, value |-> <<>>]
Ran(value) == [bound |-> TRUE, value |-> value]

\* nothing returned yet, and the metadata dict before any key is set
NoResult == [returned |-> FALSE]
NoMetadata == [openingBalance |-> None, closingBalance |-> None]

\* the document handles an invocation has acquired, each "open" or
\* "released": none yet
NoHandles == <<>>

Txn(date, description, amount, transactionType, balance) ==
    [date |-> date, description |-> description, amount |-> amount,
     transactionType |-> transactionType, balance |-> balance,
     amountCorrected |-> FALSE, originalAmount |-> None,
     suspicious |-> FALSE, suspiciousReason |-> NoReason,
     isSweep |-> FALSE, sweepType |-> NoneS, sweepAccountNumber |-> NoneS,
     shownBalance |-> None, sweepAdjustment |-> None]

-----------------------------------------------------------------------------
(* Kotak: validate_with_balance *)

Tolerance == 1
MaxBalanceDelta == 10000000

\* ValidatePair with only the 10x branch of the correction
ValidatePairTenOnly(prev, curr) ==
    IF prev.balance = None \/ curr.balance = None THEN curr
    ELSE
      LET expected_amount == Abs(prev.balance - curr.balance)
          reported_amount == curr.amount
          mismatch == Abs(expected_amount - reported_amount) > Tolerance * Scale
          case10 == /\ expected_amount > 0
                    /\ RatioAtLeast(reported_amount, expected_amount, 19, 2)
                    /\ RatioAtMost(reported_amount, expected_amount, 21, 2)
          fixed == IF mismatch /\ case10
                   THEN [curr EXCEPT !.amount = expected_amount,
                                     !.amountCorrected = TRUE,
                                     !.originalAmount = reported_amount]
                   ELSE curr
          balance_decreased == prev.balance > curr.balance
      IN  IF balance_decreased /\ fixed.transactionType = "credit"
            THEN [fixed EXCEPT !.transactionType = "debit"]
          ELSE IF ~balance_decreased /\ fixed.transactionType = "debit"
            THEN [fixed EXCEPT !.transactionType = "credit"]
          ELSE fixed

\* ValidatePair without the balance-based branch of the correction
ValidatePairRatioOnly(prev, curr) ==
    IF prev.balance = None \/ curr.balance = None THEN curr
    ELSE
      LET expected_amount == Abs(prev.balance - curr.balance)
          reported_amount == curr.amount
          mismatch == Abs(expected_amount - reported_amount) > Tolerance * Scale
          case10 == /\ expected_amount > 0
                    /\ RatioAtLeast(reported_amount, expected_amount, 19, 2)
                    /\ RatioAtMost(reported_amount, expected_amount, 21, 2)
          case100 == /\ expected_amount > 0
                     /\ RatioAtLeast(reported_amount, expected_amount, 95, 1)
                     /\ RatioAtMost(reported_amount, expected_amount, 105, 1)
          fixed == IF mismatch /\ (case10 \/ case100)
                   THEN [curr EXCEPT !.amount = expected_amount,
                                     !.amountCorrected = TRUE,
                                     !.originalAmount = reported_amount]
                   ELSE curr
          balance_decreased == prev.balance > curr.balance
      IN  IF balance_decreased /\ fixed.transactionType = "credit"
            THEN [fixed EXCEPT !.transactionType = "debit"]
          ELSE IF ~balance_decreased /\ fixed.transactionType = "debit"
            THEN [fixed EXCEPT !.transactionType = "credit"]
          ELSE fixed

\* one iteration of the loop body, for the pair (prev, curr)
ValidatePair(prev, curr) ==
    IF prev.balance = None \/ curr.balance = None THEN curr
    ELSE
      LET expected_amount == Abs(prev.balance - curr.balance)
          reported_amount == curr.amount
          mismatch == Abs(expected_amount - reported_amount) > Tolerance * Scale
          case10 == /\ expected_amount > 0
                    /\ RatioAtLeast(reported_amount, expected_amount, 19, 2)
                    /\ RatioAtMost(reported_amount, expected_amount, 21, 2)
          case100 == /\ expected_amount > 0
                     /\ RatioAtLeast(reported_amount, expected_amount, 95, 1)
                     /\ RatioAtMost(reported_amount, expected_amount, 105, 1)
          caseBal == 0 < expected_amount
                     /\ expected_amount < MaxBalanceDelta * Scale
          fixed == IF mismatch /\ (case10 \/ case100 \/ caseBal)
                   THEN [curr EXCEPT !.amount = expected_amount,
                                     !.amountCorrected = TRUE,
                                     !.originalAmount = reported_amount]
                   ELSE curr
          balance_decreased == prev.balance > curr.balance
      IN  IF balance_decreased /\ fixed.transactionType = "credit"
            THEN [fixed EXCEPT !.transactionType = "debit"]
          ELSE IF ~balance_decreased /\ fixed.transactionType = "debit"
            THEN [fixed EXCEPT !.transactionType = "credit"]
          ELSE fixed

\* the nearest record before i that has a balance, i - 1 if there is none
NearestWithBalance(txns, i) ==
    IF \E j \in 1..(i - 1) : txns[j].balance # None
    THEN CHOOSE j \in 1..(i - 1) :
             /\ txns[j].balance # None
             /\ \A k \in (j + 1)..(i - 1) : txns[k].balance = None
    ELSE i - 1

\* ValidateFrom comparing record i with the nearest earlier record that has
\* a balance
RECURSIVE ValidateFromNearest(_, _)
ValidateFromNearest(txns, i) ==
    IF i > Len(txns) THEN txns
    ELSE ValidateFromNearest(
             [txns EXCEPT ![i] = ValidatePair(txns[NearestWithBalance(txns, i)],
                                              txns[i])],
             i + 1)

\* ValidateFrom leaving a record alone when its predecessor was corrected
RECURSIVE ValidateFromSettled(_, _)
ValidateFromSettled(txns, i) ==
    IF i > Len(txns) THEN txns
    ELSE ValidateFromSettled(
             [txns EXCEPT ![i] = IF txns[i - 1].amountCorrected THEN txns[i]
                                 ELSE ValidatePair(txns[i - 1], txns[i])],
             i + 1)

RECURSIVE ValidateFrom(_, _)
ValidateFrom(txns, i) ==
    IF i > Len(txns) THEN txns
    ELSE ValidateFrom([txns EXCEPT ![i] = ValidatePair(txns[i - 1], txns[i])],
                      i + 1)

\* validate_with_balance that does not keep the amount it replaces
ValidateForgetting(txns) ==
    LET out == ValidateFrom(txns, 2)
    IN  [i \in 1..Len(out) |-> [out[i] EXCEPT !.originalAmount = None]]

validate_with_balance(txns) == ValidateFrom(txns, 2)

-----------------------------------------------------------------------------
(* Kotak: flag_suspicious_amounts *)

LargeAmount == 1000000
MinFlagDigits == 4

\* int(amount): truncation towards zero
IntPart(a) == IF a < 0 THEN 0 - ((0 - a) \div Scale) ELSE a \div Scale

RECURSIVE NumDigits(_)
NumDigits(n) == IF n < 10 THEN 1 ELSE 1 + NumDigits(n \div 10)

RECURSIVE LeadingTwo(_)
LeadingTwo(n) == IF n < 100 THEN n ELSE LeadingTwo(n \div 10)

\* SameLeadingDigits without the test of the length
SameLeadingDigitsAnyLength(a) ==
    LET n == IntPart(a)
    IN  IF n < 0
        THEN FALSE
        ELSE /\ NumDigits(n) >= 2
             /\ LeadingTwo(n) \div 10 = LeadingTwo(n) % 10

\* len(amount_str) >= 4 and amount_str[0] == amount_str[1], amount_str being
\* str(int(amount)): a negative number's first character is its sign
SameLeadingDigits(a) ==
    LET n == IntPart(a)
    IN  IF n < 0
        THEN FALSE
        ELSE /\ NumDigits(n) >= MinFlagDigits
             /\ LeadingTwo(n) \div 10 = LeadingTwo(n) % 10

\* FlagTxn storing the integer form it looked at back into the amount
FlagTxnTruncating(txn) ==
    LET whole == [txn EXCEPT !.amount = IntPart(txn.amount) * Scale]
        first == IF SameLeadingDigits(txn.amount)
                 THEN [whole EXCEPT !.suspicious = TRUE,
                                    !.suspiciousReason =
                                        Reason("First two digits are same",
                                               LeadingTwo(IntPart(txn.amount)))]
                 ELSE whole
    IN  IF txn.amount > LargeAmount * Scale
        THEN [first EXCEPT !.suspicious = TRUE,
                           !.suspiciousReason =
                               Reason("Large amount - please verify", None)]
        ELSE first

FlagTxn(txn) ==
    LET first == IF SameLeadingDigits(txn.amount)
                 THEN [txn EXCEPT !.suspicious = TRUE,
                                  !.suspiciousReason =
                                      Reason("First two digits are same",
                                             LeadingTwo(IntPart(txn.amount)))]
                 ELSE txn
    IN  IF txn.amount > LargeAmount * Scale
        THEN [first EXCEPT !.suspicious = TRUE,
                           !.suspiciousReason =
                               Reason("Large amount - please verify", None)]
        ELSE first

flag_suspicious_amounts(txns) == [i \in 1..Len(txns) |-> FlagTxn(txns[i])]

\* int(txn['amount']) raises TypeError for a None amount
FlagRaises(txns) == \E i \in 1..Len(txns) : txns[i].amount = None

\* abs(expected_amount - reported_amount) raises TypeError for a None amount
\* of a record whose predecessor and itself both have a balance
ValidateRaises(txns) ==
    \E i \in 2..Len(txns) :
        /\ txns[i - 1].balance # None
        /\ txns[i].balance # None
        /\ txns[i].amount = None

-----------------------------------------------------------------------------
(* Kotak: handle_sweep_transfers *)

\* the bracketed account tokens of the descriptions, and their digits
SweepAccount(word) ==
    IF word = "[8881]" THEN "8881"
    ELSE IF word = "[8882]" THEN "8882"
    ELSE NoneS

\* re.search(r'SWEEP\s+TRANSFER\s+<dir>\s*\[(\d+)\]', desc, re.I): the
\* positions at which the pattern matches
SweepMatches(words, dir) ==
    {i \in 1..Len(words) :
        /\ i + 3 <= Len(words)
        /\ SubSeq(words, i, i + 2) = <<"SWEEP", "TRANSFER", dir>>
        /\ SweepAccount(words[i + 3]) # NoneS}

\* group(1) of the first match, NoneS if there is none
SweepGroup(description, dir) ==
    LET ms == SweepMatches(description.body, dir)
    IN  IF ms = {} THEN NoneS
        ELSE LET i == CHOOSE m \in ms : \A o \in ms : m <= o
             IN  SweepAccount(description.body[i + 3])

sweep_to_match(txn) == SweepGroup(txn.description, "TO")
sweep_from_match(txn) == SweepGroup(txn.description, "FROM")

\* the loop body with the retroactive slip: the adjustment of a regular
\* transaction is also added to the regular transactions before it
SweepBodyRetro(txns, i, cumul) ==
    LET txn == txns[i]
    IN  IF sweep_to_match(txn) # NoneS
        THEN [txns EXCEPT ![i] = [txn EXCEPT !.isSweep = TRUE,
                                             !.sweepType = "to_fd",
                                             !.sweepAccountNumber =
                                                 sweep_to_match(txn)]]
        ELSE IF sweep_from_match(txn) # NoneS
        THEN [txns EXCEPT ![i] = [txn EXCEPT !.isSweep = TRUE,
                                             !.sweepType = "from_fd",
                                             !.sweepAccountNumber =
                                                 sweep_from_match(txn)]]
        ELSE IF cumul > 0 /\ txn.balance # None
        THEN [j \in 1..Len(txns) |->
                IF j <= i /\ txns[j].isSweep = FALSE /\ txns[j].balance # None
                THEN [txns[j] EXCEPT !.shownBalance = txns[j].balance,
                                     !.balance = txns[j].balance + cumul,
                                     !.sweepAdjustment = cumul]
                ELSE txns[j]]
        ELSE txns

\* the loop body with FROM entries taken for regular transactions
SweepBodyToOnly(txns, i, cumul) ==
    LET txn == txns[i]
    IN  IF sweep_to_match(txn) # NoneS
        THEN [txns EXCEPT ![i] = [txn EXCEPT !.isSweep = TRUE,
                                             !.sweepType = "to_fd",
                                             !.sweepAccountNumber =
                                                 sweep_to_match(txn)]]
        ELSE IF cumul > 0 /\ txn.balance # None
        THEN [txns EXCEPT ![i] = [txn EXCEPT !.shownBalance = txn.balance,
                                             !.balance = txn.balance + cumul,
                                             !.sweepAdjustment = cumul]]
        ELSE txns

\* the loop body recording the adjustment without adding it to the balance
SweepBodyNoAdjustment(txns, i, cumul) ==
    LET txn == txns[i]
    IN  IF sweep_to_match(txn) # NoneS
        THEN [txns EXCEPT ![i] = [txn EXCEPT !.isSweep = TRUE,
                                             !.sweepType = "to_fd",
                                             !.sweepAccountNumber =
                                                 sweep_to_match(txn)]]
        ELSE IF sweep_from_match(txn) # NoneS
        THEN [txns EXCEPT ![i] = [txn EXCEPT !.isSweep = TRUE,
                                             !.sweepType = "from_fd",
                                             !.sweepAccountNumber =
                                                 sweep_from_match(txn)]]
        ELSE IF cumul > 0 /\ txn.balance # None
        THEN [txns EXCEPT ![i] = [txn EXCEPT !.shownBalance = txn.balance,
                                             !.sweepAdjustment = cumul]]
        ELSE txns

\* what one iteration of the loop does to the transaction dicts: the dict at
\* position i is tagged as a sweep entry, or has its balance adjusted
SweepBody(txns, i, cumul) ==
    LET txn == txns[i]
    IN  IF sweep_to_match(txn) # NoneS
        THEN [txns EXCEPT ![i] = [txn EXCEPT !.isSweep = TRUE,
                                             !.sweepType = "to_fd",
                                             !.sweepAccountNumber =
                                                 sweep_to_match(txn)]]
        ELSE IF sweep_from_match(txn) # NoneS
        THEN [txns EXCEPT ![i] = [txn EXCEPT !.isSweep = TRUE,
                                             !.sweepType = "from_fd",
                                             !.sweepAccountNumber =
                                                 sweep_from_match(txn)]]
        ELSE IF cumul > 0 /\ txn.balance # None
        THEN [txns EXCEPT ![i] = [txn EXCEPT !.shownBalance = txn.balance,
                                             !.balance = txn.balance + cumul,
                                             !.sweepAdjustment = cumul]]
        ELSE txns

\* the running total after the iteration
SweepTotal(txn, cumul) ==
    IF sweep_to_match(txn) # NoneS THEN cumul + txn.amount
    ELSE IF sweep_from_match(txn) # NoneS THEN cumul - txn.amount
    ELSE cumul

\* handle_sweep_transfers(all_transactions) is called
SweepStart ==
    /\ pc = "kotak_extracted"
    /\ pc' = "sweep"
    /\ idx' = 0
    /\ regular_transactions' = <<>>
    /\ sweep_transactions' = <<>>
    /\ cumulative_sweep' = 0
    /\ UNCHANGED <<input, transactions, pass1, mainVars, playerVars, invokeVars>>

\* one iteration of `for txn in transactions`; the two lists hold the dicts
\* by reference, here by their position in transactions
SweepStep ==
    /\ pc = "sweep"
    /\ idx < Len(transactions)
    /\ LET i == idx + 1
           txn == transactions[i]
           swept == sweep_to_match(txn) # NoneS \/ sweep_from_match(txn) # NoneS
           after == SweepBody(transactions, i, cumulative_sweep)
       IN  /\ transactions' = after
           /\ cumulative_sweep' = SweepTotal(txn, cumulative_sweep)
           /\ sweep_transactions' =
                  IF swept THEN Append(sweep_transactions, i)
                  ELSE sweep_transactions
           /\ regular_transactions' =
                  IF swept THEN regular_transactions
                  ELSE Append(regular_transactions, i)
           /\ idx' = i
    /\ UNCHANGED <<pc, input, pass1, mainVars, playerVars, invokeVars>>

\* return regular_transactions, sweep_transactions, cumulative_sweep
SweepDone ==
    /\ pc = "sweep"
    /\ idx = Len(transactions)
    /\ pc' = "swept"
    /\ UNCHANGED <<input, transactions, pass1, sweepVars, mainVars, playerVars, invokeVars>>

-----------------------------------------------------------------------------
(* HDFC: parse_date, fix_embedded_dates, validate_transaction_types *)

IsLeap(y) == (y % 4 = 0 /\ y % 100 # 0) \/ y % 400 = 0

DaysIn(m, y) ==
    IF m \in {4, 6, 9, 11} THEN 30
    ELSE IF m = 2 THEN (IF IsLeap(y) THEN 29 ELSE 28)
    ELSE 31

\* strptime's %y: 00..68 are 2000..2068 and 69..99 are 1969..1999
Year2(yy) == IF yy <= 68 THEN 2000 + yy ELSE 1900 + yy

\* an ISO date string 'YYYY-MM-DD', as the number YYYYMMDD: the strings
\* compare as these numbers do
Iso(y, m, d) == y * 10000 + m * 100 + d

\* parse_date of a dd/mm/yy token <<dd, mm, yy>>: only '%d/%m/%y' can match
\* that shape, and `dt.year < 100` is never true of its result
parse_date_ddmmyy(tok) ==
    LET d == tok[1]
        m == tok[2]
        y == Year2(tok[3])
    IN  IF m \in 1..12 /\ d >= 1 /\ d <= DaysIn(m, y) THEN Iso(y, m, d)
        ELSE None

\* re.match(r'^(\d{2}/\d{2}/\d{2})\s+(.+)', description)
EmbeddedDateMatch(description) ==
    /\ Len(description.lead) >= 1
    /\ (Len(description.lead) >= 2 \/ description.body # <<>>)

DescriptionTruthy(description) ==
    description.lead # <<>> \/ description.body # <<>>

FixEmbeddedDate(txn) ==
    IF txn.date = None /\ DescriptionTruthy(txn.description)
       /\ EmbeddedDateMatch(txn.description)
    THEN [txn EXCEPT !.date = parse_date_ddmmyy(txn.description.lead[1]),
                     !.description = Desc(Tail(txn.description.lead),
                                          txn.description.body)]
    ELSE txn

fix_embedded_dates(txns) == [i \in 1..Len(txns) |-> FixEmbeddedDate(txns[i])]

HasDate(t) == t.date # None

\* list.sort(key=date): stable, ascending
RECURSIVE InsertByDate(_, _)
InsertByDate(sorted, t) ==
    IF sorted = <<>> THEN <<t>>
    ELSE IF sorted[Len(sorted)].date <= t.date THEN Append(sorted, t)
    ELSE Append(InsertByDate(SubSeq(sorted, 1, Len(sorted) - 1), t),
                sorted[Len(sorted)])

RECURSIVE SortFrom(_, _, _)
SortFrom(txns, i, acc) ==
    IF i > Len(txns) THEN acc
    ELSE SortFrom(txns, i + 1, InsertByDate(acc, txns[i]))

SortByDate(txns) == SortFrom(txns, 1, <<>>)

\* TypePair taking an unchanged balance for a fall
TypePairLeq(prev, curr) ==
    IF prev.balance = None \/ curr.balance = None THEN curr
    ELSE
      LET balance_diff == curr.balance - prev.balance
      IN  IF balance_diff <= 0 THEN [curr EXCEPT !.transactionType = "debit"]
          ELSE [curr EXCEPT !.transactionType = "credit"]

\* TypePair that also replaces the amount by the balance difference, as the
\* Kotak pass does
TypePairCorrecting(prev, curr) ==
    IF prev.balance = None \/ curr.balance = None THEN curr
    ELSE
      LET balance_diff == curr.balance - prev.balance
          fixed == IF balance_diff # 0 /\ curr.amount # Abs(balance_diff)
                   THEN [curr EXCEPT !.amount = Abs(balance_diff),
                                     !.amountCorrected = TRUE,
                                     !.originalAmount = curr.amount]
                   ELSE curr
      IN  IF balance_diff < 0 THEN [fixed EXCEPT !.transactionType = "debit"]
          ELSE IF balance_diff > 0
            THEN [fixed EXCEPT !.transactionType = "credit"]
          ELSE fixed

\* one iteration of the type loop, for the pair (prev, curr)
TypePair(prev, curr) ==
    IF prev.balance = None \/ curr.balance = None THEN curr
    ELSE
      LET balance_diff == curr.balance - prev.balance
      IN  IF balance_diff < 0 THEN [curr EXCEPT !.transactionType = "debit"]
          ELSE IF balance_diff > 0
            THEN [curr EXCEPT !.transactionType = "credit"]
          ELSE curr

RECURSIVE TypesFrom(_, _)
TypesFrom(txns, i) ==
    IF i > Len(txns) THEN txns
    ELSE TypesFrom([txns EXCEPT ![i] = TypePair(txns[i - 1], txns[i])], i + 1)

\* the date-sorted, type-corrected dated records of the pass
ValidSorted(txns) ==
    TypesFrom(SortByDate(SelectSeq(fix_embedded_dates(txns), HasDate)), 2)

InvalidOf(txns) ==
    SelectSeq(fix_embedded_dates(txns), LAMBDA t : ~HasDate(t))

validate_transaction_types(txns) ==
    IF txns = <<>> THEN txns
    ELSE ValidSorted(txns) \o InvalidOf(txns)

-----------------------------------------------------------------------------
(* Cells and tokens of a page, and parse_indian_amount *)

\* A table cell or a whitespace-separated token of a text line, by what the
\* extractors can tell of it: "none" (None or empty), "dash" ('-'), "num" (a
\* numeral, commas allowed, with its value), "date" (text the dialect's date
\* pattern matches, with its <<day, month, year>>), "text" (anything else,
\* with its words).
Cell(kind, num, date, words) ==
    [kind |-> kind, num |-> num, date |-> date, words |-> words]

NoCell == Cell("none", 0, <<>>, <<>>)
DashCell == Cell("dash", 0, <<>>, <<>>)
NumCell(v) == Cell("num", v, <<>>, <<>>)
DateCell(d) == Cell("date", 0, d, <<>>)
TextCell(w) == Cell("text", 0, <<>>, w)

\* parse_indian_amount(str(cell or ''))
parse_indian_amount(cell) == IF cell.kind = "num" THEN cell.num ELSE None

\* Python truthiness of a float or None
Truthy(x) == x # None /\ x # 0

\* `phrase in text.lower()`, for a phrase of whole words
ContainsPhrase(words, phrase) ==
    \E i \in 1..Len(words) :
        /\ i + Len(phrase) - 1 <= Len(words)
        /\ SubSeq(words, i, i + Len(phrase) - 1) = phrase

ContainsAny(words, phrases) == \E ph \in phrases : ContainsPhrase(words, ph)

\* str(cell or '').strip(), as a description
CellDesc(cell) ==
    IF cell.kind = "text" THEN Desc(<<>>, cell.words)
    ELSE IF cell.kind = "date" THEN Desc(<<cell.date>>, <<>>)
    ELSE IF cell.kind = "num" THEN Desc(<<>>, <<"NUMERAL">>)
    ELSE IF cell.kind = "dash" THEN Desc(<<>>, <<"-">>)
    ELSE Desc(<<>>, <<>>)

\* the values parse_indian_amount gives for the cells, None results dropped
RECURSIVE NumericValues(_)
NumericValues(cells) ==
    IF cells = <<>> THEN <<>>
    ELSE LET v == parse_indian_amount(Head(cells))
         IN  (IF v = None THEN <<>> ELSE <<v>>) \o NumericValues(Tail(cells))

-----------------------------------------------------------------------------
(* HDFC: extract_transactions (text lines) *)

HdfcCreditKeywords ==
    {<<"NEFT", "CR">>, <<"CREDIT">>, <<"RECEIVED">>, <<"INTEREST", "PAID">>,
     <<"TPT-">>, <<"NEFTCR">>}

\* A text line: matched says that the line holds no skip word and has the
\* shape  dd/mm/yy narration reference dd/mm/yy rest ; parts are the tokens
\* of rest.
Line(matched, date, narration, parts) ==
    [matched |-> matched, date |-> date, narration |-> narration,
     parts |-> parts]

\* the transactions one line appends: none or one
HdfcLineRecord(line) ==
    IF ~line.matched THEN <<>>
    ELSE
      LET numeric_values == NumericValues(line.parts)
          n == Len(numeric_values)
          balance == IF n >= 1 THEN numeric_values[n] ELSE None
          credit == ContainsAny(line.narration.body, HdfcCreditKeywords)
          withdrawal ==
              IF n = 2 THEN (IF credit THEN None ELSE numeric_values[1])
              ELSE IF n = 3
                THEN (IF numeric_values[1] > 0 THEN numeric_values[1] ELSE None)
              ELSE None
          deposit ==
              IF n = 2 THEN (IF credit THEN numeric_values[1] ELSE None)
              ELSE IF n = 3
                THEN (IF numeric_values[2] > 0 THEN numeric_values[2] ELSE None)
              ELSE None
      IN  IF withdrawal = None /\ deposit = None THEN <<>>
          ELSE << Txn(parse_date_ddmmyy(line.date), line.narration,
                      IF Truthy(withdrawal) THEN withdrawal ELSE deposit,
                      IF Truthy(withdrawal) THEN "debit" ELSE "credit",
                      balance) >>

-----------------------------------------------------------------------------
(* HDFC: extract_transactions_from_tables *)

MinRowLen == 5

FirstDate(row) ==
    IF \E i \in 1..Len(row) : row[i].kind = "date"
    THEN CHOOSE i \in 1..Len(row) :
             /\ row[i].kind = "date"
             /\ \A j \in 1..(i - 1) : row[j].kind # "date"
    ELSE 0

RowHasWord(row, ws) ==
    \E i \in 1..Len(row) : \E k \in 1..Len(row[i].words) : row[i].words[k] \in ws

\* the transactions one table row appends: none or one
HdfcRowRecord(row) ==
    IF Len(row) < MinRowLen THEN <<>>
    ELSE IF RowHasWord(row, {"Narration", "Date"}) THEN <<>>
    ELSE IF FirstDate(row) = 0 THEN <<>>
    ELSE
      LET n == Len(row)
          withdrawal == IF n > 5 THEN parse_indian_amount(row[n - 2]) ELSE None
          deposit == IF n > 4 THEN parse_indian_amount(row[n - 1]) ELSE None
          balance == IF n > 3 THEN parse_indian_amount(row[n]) ELSE None
          date == parse_date_ddmmyy(row[FirstDate(row)].date)
          narration == CellDesc(row[2])
      IN  IF Truthy(withdrawal) /\ ~Truthy(deposit)
            THEN << Txn(date, narration, withdrawal, "debit", balance) >>
          ELSE IF Truthy(deposit) /\ ~Truthy(withdrawal)
            THEN << Txn(date, narration, deposit, "credit", balance) >>
          ELSE IF Truthy(withdrawal) /\ Truthy(deposit)
            THEN IF withdrawal > deposit
                 THEN << Txn(date, narration, withdrawal, "debit", balance) >>
                 ELSE << Txn(date, narration, deposit, "credit", balance) >>
          ELSE <<>>

-----------------------------------------------------------------------------
(* Kotak: the row loop of extract_transactions *)

KotakCreditKeywords == {<<"NEFT", "CR">>, <<"RECEIVED">>, <<"CREDIT">>}

\* parse_date of a 'DD Mon YYYY' cell <<day, month, year>>
parse_date_dmy(tok) ==
    IF tok[2] \in 1..12 /\ tok[1] >= 1 /\ tok[1] <= DaysIn(tok[2], tok[3])
    THEN Iso(tok[3], tok[2], tok[1])
    ELSE None

\* the transactions one table row appends: none or one
KotakRowRecord(row) ==
    IF Len(row) < MinRowLen THEN <<>>
    ELSE IF \E i \in 1..Len(row) :
                \/ ContainsPhrase(row[i].words, <<"Opening", "Balance">>)
                \/ ContainsPhrase(row[i].words, <<"End", "of", "Statement">>)
      THEN <<>>
    ELSE IF FirstDate(row) = 0 THEN <<>>
    ELSE
      LET date_idx == FirstDate(row)
          description == IF date_idx + 1 <= Len(row)
                         THEN CellDesc(row[date_idx + 1])
                         ELSE Desc(<<>>, <<>>)
          numeric_cols == IF date_idx + 3 <= Len(row)
                          THEN NumericValues(SubSeq(row, date_idx + 3, Len(row)))
                          ELSE <<>>
          n == Len(numeric_cols)
          balance == IF n >= 1 THEN numeric_cols[n] ELSE None
          credit == ContainsAny(description.body, KotakCreditKeywords)
          withdrawal ==
              IF n >= 3
                THEN (IF Truthy(numeric_cols[n - 2]) THEN numeric_cols[n - 2]
                      ELSE None)
              ELSE IF n = 2
                THEN (IF credit THEN None ELSE numeric_cols[n - 1])
              ELSE None
          deposit ==
              IF n >= 3
                THEN (IF Truthy(numeric_cols[n - 1]) THEN numeric_cols[n - 1]
                      ELSE None)
              ELSE IF n = 2
                THEN (IF credit THEN numeric_cols[n - 1] ELSE None)
              ELSE None
      IN  IF withdrawal = None /\ deposit = None THEN <<>>
          ELSE << Txn(parse_date_dmy(row[date_idx].date), description,
                      IF Truthy(withdrawal) THEN withdrawal ELSE deposit,
                      IF Truthy(withdrawal) THEN "debit" ELSE "credit",
                      balance) >>

-----------------------------------------------------------------------------
(* The reconciliation passes, each applied to extracted transactions and   *)
(* then once more to its own output.                                       *)

PlainDesc == Desc(<<>>, <<"UPI", "PAYMENT">>)

\* balances 10.0, 10.1 and 20.0; amounts 1.0, 10.0 and 100.0
KotakReconTxns ==
    {Txn(20250402, PlainDesc, a, ty, b) :
        a \in {10, 100, 1000}, ty \in {"debit", "credit"},
        b \in {None, 100, 101, 200}}

\* a line whose own date did not parse has date None; its narration may
\* itself start with dd/mm/yy tokens (31/02/25 is no date, 01/04/25 is one)
HdfcDated ==
    {<<20250402, PlainDesc>>,
     <<None, PlainDesc>>,
     <<None, Desc(<< <<1, 4, 25>> >>, <<"UPI", "PAYMENT">>)>>,
     <<None, Desc(<< <<31, 2, 25>>, <<1, 4, 25>> >>, <<"UPI", "PAYMENT">>)>>}

HdfcReconTxns ==
    {Txn(dd[1], dd[2], 1000, ty, b) :
        dd \in HdfcDated, ty \in {"debit", "credit"}, b \in {None, 100, 200}}

\* rows of a table in any order of their dates; '31 Feb 2026' matches the
\* date pattern of the row loop and parses to None
KotakOrderTxns ==
    {Txn(d, PlainDesc, 1000, "debit", b) :
        d \in {20260201, 20260202, None}, b \in {1000, 2000}}

\* lines of two days with amounts 10.0 and 100.0
HdfcAmountTxns ==
    {Txn(d, PlainDesc, a, "debit", b) :
        d \in {20250402, 20250403}, a \in {100, 1000}, b \in {100, 200}}

InitRecon ==
    /\ \/ pc = "kotak_recon" /\ input \in SeqsUpTo(KotakReconTxns, MaxTxns)
       \/ pc = "hdfc_recon" /\ input \in SeqsUpTo(HdfcAmountTxns, MaxTxns)
       \/ pc = "kotak_recon" /\ input \in SeqsUpTo(KotakOrderTxns, MaxTxns)
       \/ pc = "hdfc_recon" /\ input \in SeqsUpTo(HdfcReconTxns, MaxTxns)
    /\ transactions = input
    /\ pass1 = <<>>
    /\ idx = 0
    /\ regular_transactions = <<>>
    /\ sweep_transactions = <<>>
    /\ cumulative_sweep = 0
    /\ table_transactions = NotRun
    /\ errors = <<>>
    /\ rows_skipped = 0
    /\ start_row = 0
    /\ result = NoResult
    /\ metadata = NoMetadata
    /\ stdout = <<>>
    /\ exit_status = None
    /\ handles = NoHandles

KotakReconcile ==
    /\ pc = "kotak_recon"
    /\ transactions' = validate_with_balance(transactions)
    /\ pass1' = transactions'
    /\ pc' = "kotak_again"
    /\ UNCHANGED <<input, sweepVars, mainVars, playerVars, invokeVars>>

KotakReconcileAgain ==
    /\ pc = "kotak_again"
    /\ transactions' = validate_with_balance(transactions)
    /\ pc' = "kotak_done"
    /\ UNCHANGED <<input, pass1, sweepVars, mainVars, playerVars, invokeVars>>

HdfcReconcile ==
    /\ pc = "hdfc_recon"
    /\ transactions' = validate_transaction_types(transactions)
    /\ pass1' = transactions'
    /\ pc' = "hdfc_again"
    /\ UNCHANGED <<input, sweepVars, mainVars, playerVars, invokeVars>>

HdfcReconcileAgain ==
    /\ pc = "hdfc_again"
    /\ transactions' = validate_transaction_types(transactions)
    /\ pc' = "hdfc_done"
    /\ UNCHANGED <<input, pass1, sweepVars, mainVars, playerVars, invokeVars>>

NextRecon ==
    \/ KotakReconcile
    \/ KotakReconcileAgain
    \/ HdfcReconcile
    \/ HdfcReconcileAgain

SpecRecon == InitRecon /\ [][NextRecon]_vars

\* The Kotak pass on statements whose balances move by 10,000,000.0 or more:
\* balances 0, 5,000.0, 10,000,000.0 and 10,005,000.0 with the amounts 100.0
\* and 9,995,000.0
KotakLargeTxns ==
    {Txn(20260201, PlainDesc, a, ty, b) :
        a \in {100 * Scale, (MaxBalanceDelta - 5000) * Scale},
        ty \in {"debit", "credit"},
        b \in {0, 5000 * Scale, MaxBalanceDelta * Scale,
                (MaxBalanceDelta + 5000) * Scale}}

InitReconLarge ==
    /\ pc = "kotak_recon"
    /\ input \in SeqsUpTo(KotakLargeTxns, MaxTxns)
    /\ transactions = input
    /\ pass1 = <<>>
    /\ idx = 0
    /\ regular_transactions = <<>>
    /\ sweep_transactions = <<>>
    /\ cumulative_sweep = 0
    /\ table_transactions = NotRun
    /\ errors = <<>>
    /\ rows_skipped = 0
    /\ start_row = 0
    /\ result = NoResult
    /\ metadata = NoMetadata
    /\ stdout = <<>>
    /\ exit_status = None
    /\ handles = NoHandles

NextReconLarge ==
    \/ KotakReconcile
    \/ KotakReconcileAgain

SpecReconLarge == InitReconLarge /\ [][NextReconLarge]_vars

-----------------------------------------------------------------------------
(* The row extractors, each fed the lines or rows of a document one by one *)

MaxRows == 2

AmountCells == {NumCell(0), NumCell(5000), NumCell(0 - 500)}

CreditDesc == Desc(<<>>, <<"NEFT", "CR", "SALARY">>)

HdfcParts ==
    UNION {[1..k -> AmountCells] : k \in 1..3}
        \cup {<<>>, <<DashCell, NumCell(5000), NumCell(5000)>>}

HdfcLines ==
    {Line(TRUE, <<1, 4, 25>>, n, ps) :
        n \in {PlainDesc, CreditDesc}, ps \in HdfcParts}
        \cup {Line(FALSE, <<>>, Desc(<<>>, <<>>), <<>>)}

RefCell == TextCell(<<"REF">>)

\* Date | Narration | Chq/Ref | ValueDt | Withdrawal | Deposit | Balance,
\* the same without the withdrawal column, and rows that are no data rows
HdfcRows ==
    {<<DateCell(<<1, 4, 25>>), TextCell(PlainDesc.body), RefCell,
       DateCell(<<1, 4, 25>>), w, d, b>> :
        w \in AmountCells \cup {NoCell}, d \in AmountCells \cup {NoCell},
        b \in {NumCell(5000), NoCell}}
    \cup
    {<<DateCell(<<1, 4, 25>>), TextCell(PlainDesc.body), RefCell,
       DateCell(<<1, 4, 25>>), d, NumCell(5000)>> : d \in AmountCells}
    \cup
    {<<DateCell(<<1, 4, 25>>), TextCell(PlainDesc.body), RefCell,
       NumCell(5000), NumCell(5000)>>,
     <<DateCell(<<1, 4, 25>>), TextCell(PlainDesc.body), NumCell(5000),
       NumCell(5000)>>,
     <<TextCell(<<"Date">>), TextCell(<<"Narration">>), RefCell, RefCell,
       TextCell(<<"Withdrawal">>), TextCell(<<"Deposit">>),
       TextCell(<<"Balance">>)>>,
     <<NoCell, TextCell(PlainDesc.body), RefCell, NoCell, NumCell(5000),
       NoCell, NumCell(5000)>>}

\* # | Date | Description | Chq/Ref | Withdrawal | Deposit | Balance, and
\* rows that are no data rows
KotakRows ==
    {<<NumCell(10), DateCell(<<1, 2, 2026>>), TextCell(n.body), RefCell,
       w, d, b>> :
        n \in {PlainDesc, CreditDesc},
        w \in AmountCells \cup {NoCell}, d \in AmountCells \cup {NoCell},
        b \in {NumCell(5000), NoCell}}
    \cup
    {<<NumCell(10), DateCell(<<31, 2, 2026>>), TextCell(PlainDesc.body),
       RefCell, NumCell(5000), NoCell, NumCell(5000)>>,
     <<NoCell, TextCell(<<"Opening", "Balance">>), NoCell, NoCell, NoCell,
       NoCell, NumCell(5000)>>,
     <<NumCell(10), DateCell(<<1, 2, 2026>>), TextCell(PlainDesc.body),
       NumCell(5000)>>,
     <<NumCell(10), NoCell, TextCell(PlainDesc.body), RefCell, NumCell(5000),
       NoCell, NumCell(5000)>>}

InitExtract ==
    /\ pc \in {"hdfc_lines", "hdfc_tables", "kotak_rows"}
    /\ input = <<>>
    /\ transactions = <<>>
    /\ pass1 = <<>>
    /\ idx = 0
    /\ regular_transactions = <<>>
    /\ sweep_transactions = <<>>
    /\ cumulative_sweep = 0
    /\ table_transactions = NotRun
    /\ errors = <<>>
    /\ rows_skipped = 0
    /\ start_row = 0
    /\ result = NoResult
    /\ metadata = NoMetadata
    /\ stdout = <<>>
    /\ exit_status = None
    /\ handles = NoHandles

\* one iteration of `for line in lines`
ExtractHdfcLine ==
    /\ pc = "hdfc_lines"
    /\ idx < MaxRows
    /\ \E line \in HdfcLines :
          /\ input' = <<line>>
          /\ transactions' = transactions \o HdfcLineRecord(line)
    /\ idx' = idx + 1
    /\ UNCHANGED <<pc, pass1, regular_transactions, sweep_transactions,
                   cumulative_sweep, mainVars, playerVars, invokeVars>>

\* one iteration of `for row in table`
ExtractHdfcRow ==
    /\ pc = "hdfc_tables"
    /\ idx < MaxRows
    /\ \E row \in HdfcRows :
          /\ input' = <<row>>
          /\ transactions' = transactions \o HdfcRowRecord(row)
    /\ idx' = idx + 1
    /\ UNCHANGED <<pc, pass1, regular_transactions, sweep_transactions,
                   cumulative_sweep, mainVars, playerVars, invokeVars>>

\* one iteration of `for row in table[header_idx + 1:]`
ExtractKotakRow ==
    /\ pc = "kotak_rows"
    /\ idx < MaxRows
    /\ \E row \in KotakRows :
          /\ input' = <<row>>
          /\ transactions' = transactions \o KotakRowRecord(row)
    /\ idx' = idx + 1
    /\ UNCHANGED <<pc, pass1, regular_transactions, sweep_transactions,
                   cumulative_sweep, mainVars, playerVars, invokeVars>>

\* transactions = validate_with_balance(transactions), once the row loop has
\* run out of rows ("kotak_rows_end": it has); a TypeError leaves the function
ExtractKotakValidate ==
    /\ pc \in {"kotak_rows", "kotak_rows_end"}
    /\ IF ValidateRaises(transactions)
       THEN pc' = "kotak_error" /\ UNCHANGED <<transactions, pass1>>
       ELSE /\ pc' = "kotak_validated"
            /\ transactions' = validate_with_balance(transactions)
            /\ pass1' = transactions'
    /\ UNCHANGED <<input, sweepVars, mainVars, playerVars, invokeVars>>

\* transactions = flag_suspicious_amounts(transactions)
ExtractKotakFlag ==
    /\ pc = "kotak_validated"
    /\ IF FlagRaises(transactions)
       THEN pc' = "kotak_error" /\ UNCHANGED transactions
       ELSE /\ pc' = "kotak_extracted"
            /\ transactions' = flag_suspicious_amounts(transactions)
    /\ UNCHANGED <<input, pass1, sweepVars, mainVars, playerVars, invokeVars>>

NextExtract ==
    \/ ExtractHdfcLine
    \/ ExtractHdfcRow
    \/ ExtractKotakRow
    \/ ExtractKotakValidate
    \/ ExtractKotakFlag

SpecExtract == InitExtract /\ [][NextExtract]_vars

-----------------------------------------------------------------------------
(* The Kotak pipeline from the end of the row loop: validate_with_balance, *)
(* flag_suspicious_amounts, handle_sweep_transfers.                        *)

SweepToDesc == Desc(<<>>, <<"SWEEP", "TRANSFER", "TO", "[8881]">>)
SweepFromDesc == Desc(<<>>, <<"SWEEP", "TRANSFER", "FROM", "[8882]">>)

\* amounts 50.5, 1100.0 and 1100000.0; balance 100.0 or none
SweepTxns ==
    {Txn(20260201, d, a, "debit", b) :
        d \in {PlainDesc, SweepToDesc, SweepFromDesc},
        a \in {505, 11000, 11000000},
        b \in {None, 1000}}

\* rows of a statement whose balances move by the amounts: 100.0 and 500.0
\* between the balances 1000.0, 1400.0 and 1500.0
SweepLedgerTxns ==
    {Txn(20260201, d, a, "debit", b) :
        d \in {PlainDesc, SweepToDesc, SweepFromDesc},
        a \in {1000, 5000},
        b \in {10000, 14000, 15000}}

InitSweep ==
    /\ pc = "kotak_rows_end"
    /\ input \in SeqsUpTo(SweepTxns, MaxTxns)
                  \cup SeqsUpTo(SweepLedgerTxns, MaxTxns)
    /\ transactions = input
    /\ pass1 = <<>>
    /\ idx = 0
    /\ regular_transactions = <<>>
    /\ sweep_transactions = <<>>
    /\ cumulative_sweep = 0
    /\ table_transactions = NotRun
    /\ errors = <<>>
    /\ rows_skipped = 0
    /\ start_row = 0
    /\ result = NoResult
    /\ metadata = NoMetadata
    /\ stdout = <<>>
    /\ exit_status = None
    /\ handles = NoHandles

NextSweep ==
    \/ ExtractKotakValidate
    \/ ExtractKotakFlag
    \/ SweepStart
    \/ SweepStep
    \/ SweepDone

SpecSweep == InitSweep /\ [][NextSweep]_vars

-----------------------------------------------------------------------------
(* HDFC: main, from the line extractor to the reconciliation pass *)

MinLineYield == 5

\* extract_transactions over all the lines of all the pages
RECURSIVE hdfc_extract_transactions(_)
hdfc_extract_transactions(lines) ==
    IF lines = <<>> THEN <<>>
    ELSE HdfcLineRecord(Head(lines)) \o hdfc_extract_transactions(Tail(lines))

\* extract_transactions_from_tables over all the rows of all the tables
RECURSIVE extract_transactions_from_tables(_)
extract_transactions_from_tables(rows) ==
    IF rows = <<>> THEN <<>>
    ELSE HdfcRowRecord(Head(rows)) \o extract_transactions_from_tables(Tail(rows))

\* FallbackNeeded with the threshold itself counted as too few
FallbackNeededInclusive(txns) == Len(txns) <= MinLineYield

\* `if len(transactions) < 5`
FallbackNeeded(txns) == Len(txns) < MinLineYield

\* `if len(table_transactions) > len(transactions)`
Supersedes(table_txns, txns) == Len(table_txns) > Len(txns)

MaxDoc == 6

MainLines ==
    {Line(TRUE, <<1, 4, 25>>, PlainDesc, <<NumCell(5000), NumCell(20000)>>),
     Line(FALSE, <<>>, Desc(<<>>, <<>>), <<>>)}

MainRows ==
    {<<DateCell(<<1, 4, 25>>), TextCell(PlainDesc.body), TextCell(<<"REF">>),
       DateCell(<<1, 4, 25>>), NumCell(7000), NoCell, NumCell(20000)>>,
     <<DateCell(<<1, 4, 25>>), TextCell(PlainDesc.body), NumCell(7000),
       NumCell(20000)>>}

\* short documents whose first transaction is a debit or a credit, with a
\* balance, a balance of zero or no balance
BackfillLines ==
    {Line(TRUE, <<1, 4, 25>>, n, <<NumCell(5000), b>>) :
        n \in {PlainDesc, CreditDesc}, b \in {NumCell(20000), NumCell(0)}}

BackfillRows ==
    {<<DateCell(<<1, 4, 25>>), TextCell(PlainDesc.body), TextCell(<<"REF">>),
       DateCell(<<1, 4, 25>>), NumCell(7000), NoCell, b>> :
        b \in {NumCell(20000), NoCell}}

BackfillDocs ==
    [lines : SeqsUpTo(BackfillLines, MaxRows),
     rows : SeqsUpTo(BackfillRows, 1)]

\* the closing balance of the last transaction and the opening balance
\* derived from the first, `if first_txn.get('balance') and
\* first_txn.get('amount')`
BackFill(meta, txns) ==
    IF txns = <<>> THEN meta
    ELSE LET first_txn == txns[1]
         IN  [closingBalance |-> txns[Len(txns)].balance,
              openingBalance |->
                  IF Truthy(first_txn.balance) /\ Truthy(first_txn.amount)
                  THEN IF first_txn.transactionType = "debit"
                       THEN first_txn.balance + first_txn.amount
                       ELSE first_txn.balance - first_txn.amount
                  ELSE meta.openingBalance]

InitMain ==
    /\ pc = "hdfc_main"
    /\ input \in [lines : SeqsUpTo(MainLines, MaxDoc),
                  rows : SeqsUpTo(MainRows, MaxDoc)] \cup BackfillDocs
    /\ transactions = <<>>
    /\ pass1 = <<>>
    /\ idx = 0
    /\ regular_transactions = <<>>
    /\ sweep_transactions = <<>>
    /\ cumulative_sweep = 0
    /\ table_transactions = NotRun
    /\ errors = <<>>
    /\ rows_skipped = 0
    /\ start_row = 0
    /\ result = NoResult
    /\ metadata = NoMetadata
    /\ stdout = <<>>
    /\ exit_status = None
    /\ handles = NoHandles

\* transactions = extract_transactions(pdf)
MainExtract ==
    /\ pc = "hdfc_main"
    /\ pc' = "hdfc_main_extracted"
    /\ transactions' = hdfc_extract_transactions(input.lines)
    /\ UNCHANGED <<input, pass1, sweepVars, mainVars, playerVars, invokeVars>>

\* the fallback to the table extractor
MainFallback ==
    /\ pc = "hdfc_main_extracted"
    /\ pc' = "hdfc_main_chosen"
    /\ IF FallbackNeeded(transactions)
       THEN LET found == extract_transactions_from_tables(input.rows)
            IN  /\ table_transactions' = Ran(found)
                /\ transactions' = IF Supersedes(found, transactions)
                                   THEN found ELSE transactions
       ELSE UNCHANGED <<transactions, table_transactions>>
    /\ UNCHANGED <<input, pass1, sweepVars, playerVars, invokeVars>>

\* transactions = validate_transaction_types(transactions); pass1 keeps the
\* list that was handed over
MainValidate ==
    /\ pc = "hdfc_main_chosen"
    /\ pc' = "hdfc_main_done"
    /\ pass1' = transactions
    /\ transactions' = validate_transaction_types(transactions)
    /\ UNCHANGED <<input, sweepVars, mainVars, playerVars, invokeVars>>

\* the balances of the metadata, set from the reconciled list
MainBackFill ==
    /\ pc = "hdfc_main_done"
    /\ pc' = "hdfc_main_filled"
    /\ metadata' = BackFill(metadata, transactions)
    /\ UNCHANGED <<input, transactions, pass1, sweepVars, mainVars, playerVars,
                   result, stdout, exit_status, handles>>

NextMain ==
    \/ MainExtract
    \/ MainFallback
    \/ MainValidate
    \/ MainBackFill

SpecMain == InitMain /\ [][NextMain]_vars

-----------------------------------------------------------------------------
(* Template player: parse_pdf_with_template *)

\* a cell holding white space only, and the empty string
BlankCell == Cell("blank", 0, <<>>, <<>>)
EmptyStr == TextCell(<<>>)

ValidDate(d, m, y) == y >= 1 /\ m \in 1..12 /\ d >= 1 /\ d <= DaysIn(m, y)

\* strptime of the text 'a/b/y' of a date cell under one format; '%Y' takes
\* four digits and '%y' two, and the formats written with '-' or with a
\* month name never match that text
Strptime(tok, fmt) ==
    IF fmt = "DD/MM/YYYY"
      THEN IF tok[3] >= 1000 /\ ValidDate(tok[1], tok[2], tok[3])
           THEN Iso(tok[3], tok[2], tok[1]) ELSE None
    ELSE IF fmt = "DD/MM/YY"
      THEN IF tok[3] < 100 /\ ValidDate(tok[1], tok[2], Year2(tok[3]))
           THEN Iso(Year2(tok[3]), tok[2], tok[1]) ELSE None
    ELSE IF fmt = "MM/DD/YYYY"
      THEN IF tok[3] >= 1000 /\ ValidDate(tok[2], tok[1], tok[3])
           THEN Iso(tok[3], tok[1], tok[2]) ELSE None
    ELSE None

\* the first format of the sequence that parses the token
RECURSIVE FirstParse(_, _)
FirstParse(tok, fmts) ==
    IF fmts = <<>> THEN None
    ELSE IF Strptime(tok, Head(fmts)) # None THEN Strptime(tok, Head(fmts))
    ELSE FirstParse(tok, Tail(fmts))

\* parse_date(str(value) if value else '', fmt): the hinted format first,
\* then the common formats in their order
template_parse_date(cell, fmt) ==
    IF cell.kind # "date" THEN None
    ELSE FirstParse(cell.date,
                    <<fmt, "DD/MM/YYYY", "DD-MM-YYYY", "DD/MM/YY", "DD-MM-YY",
                      "YYYY-MM-DD", "MM/DD/YYYY">>)

\* a decorated amount: a magnitude written with some of a currency sign,
\* enclosing parentheses, a leading minus and a trailing DR or CR, its text
\* being [currency] ['('] ['-'] digits [')'] [' DR' | ' CR']
AmountText(magnitude, marks) == Cell("amount", magnitude, <<>>, marks)

HasMark(cell, mark) == \E k \in 1..Len(cell.words) : cell.words[k] = mark

\* float('inf'), which float() returns for the words inf and infinity
Infinity == 0 - (None + 1)

FloatWords == {"inf", "Infinity"}

\* parse_amount(str(value) if value else ''): a numeral with its sign, a
\* decorated amount by the sign rules, a word float() accepts, else None
parse_amount(cell) ==
    IF cell.kind = "num" THEN cell.num
    ELSE IF cell.kind = "amount"
      THEN IF HasMark(cell, "(") \/ HasMark(cell, "-") \/ HasMark(cell, "DR")
             THEN 0 - Abs(cell.num)
           ELSE IF HasMark(cell, "CR") THEN Abs(cell.num)
           ELSE cell.num
    ELSE IF cell.kind = "text" /\ Len(cell.words) = 1
            /\ cell.words[1] \in FloatWords
      THEN Infinity
    ELSE None

\* get_column_value(row, 'col_<source>'); None and '' are both NoCell
get_column_value(row, source) ==
    IF source # None /\ source < Len(row) THEN row[source + 1] ELSE NoCell

\* `if value`
ValueTruthy(cell) == cell.kind # "none"

\* str(value).strip()
Strip(cell) == IF cell.kind = "blank" THEN EmptyStr ELSE cell

\* `not row or not any(cell and str(cell).strip() for cell in row)`
RowIsEmpty(row) ==
    \A i \in 1..Len(row) : row[i].kind \in {"none", "blank"}

\* the words of the model's cells whose lower-case text contains one of
\* 'date', 'amount', 'balance', 'narration', 'description', 'debit', 'credit'
HeaderKeywordWords ==
    {"Date", "Amount", "Balance", "Narration", "Description", "Debit",
     "Credit", "CREDIT"}

HeaderScan == 5

\* `any(kw in row_text for kw in header_keywords)` of a non-empty row
IsHeaderRow(row) == row # <<>> /\ RowHasWord(row, HeaderKeywordWords)

\* FindStartRow stopping on the header row itself
FindStartRowAtHeader(all_tables) ==
    LET scanned == 1..(IF Len(all_tables) < HeaderScan THEN Len(all_tables)
                       ELSE HeaderScan)
    IN  IF \E i \in scanned : IsHeaderRow(all_tables[i])
        THEN (CHOOSE i \in scanned :
                 /\ IsHeaderRow(all_tables[i])
                 /\ \A j \in 1..(i - 1) : ~IsHeaderRow(all_tables[j])) - 1
        ELSE 0

\* start_row after the scan of all_tables[:5]
FindStartRow(all_tables) ==
    LET scanned == 1..(IF Len(all_tables) < HeaderScan THEN Len(all_tables)
                       ELSE HeaderScan)
    IN  IF \E i \in scanned : IsHeaderRow(all_tables[i])
        THEN CHOOSE i \in scanned :
                 /\ IsHeaderRow(all_tables[i])
                 /\ \A j \in 1..(i - 1) : ~IsHeaderRow(all_tables[j])
        ELSE 0

\* a descriptor {source: 'col_N', format}, and a value that is no dict
Mapping(source, format) == [source |-> source, format |-> format, dict |-> TRUE]
BadDescriptor == [source |-> None, format |-> NoneS, dict |-> FALSE]

Mapped(mappings, field) == field \in DOMAIN mappings

ColumnOf(row, mappings, field) ==
    get_column_value(row, mappings[field].source)

\* the fields that are copied as stripped text when the value is truthy
TextField(row, mappings, field) ==
    IF Mapped(mappings, field) /\ ValueTruthy(ColumnOf(row, mappings, field))
    THEN Strip(ColumnOf(row, mappings, field))
    ELSE NoCell

DateField(row, mappings, field) ==
    IF Mapped(mappings, field)
    THEN template_parse_date(ColumnOf(row, mappings, field),
                             mappings[field].format)
    ELSE None

\* withdrawal and deposit: kept when parsed and not zero, as a magnitude
MagnitudeField(row, mappings, field) ==
    IF Mapped(mappings, field)
       /\ Truthy(parse_amount(ColumnOf(row, mappings, field)))
    THEN Abs(parse_amount(ColumnOf(row, mappings, field)))
    ELSE None

\* amount and balance: kept when parsed
AmountField(row, mappings, field) ==
    IF Mapped(mappings, field)
    THEN parse_amount(ColumnOf(row, mappings, field))
    ELSE None

\* the dict the loop over mappings.items() builds for one row
BuildTxn(row, mappings) ==
    [raw_data |-> [f \in DOMAIN mappings |-> ColumnOf(row, mappings, f)],
     date |-> DateField(row, mappings, "date"),
     valueDate |-> DateField(row, mappings, "valueDate"),
     narration |-> IF ~Mapped(mappings, "narration") THEN NoCell
                   ELSE IF ValueTruthy(ColumnOf(row, mappings, "narration"))
                     THEN Strip(ColumnOf(row, mappings, "narration"))
                   ELSE EmptyStr,
     reference |-> TextField(row, mappings, "reference"),
     withdrawal |-> MagnitudeField(row, mappings, "withdrawal"),
     deposit |-> MagnitudeField(row, mappings, "deposit"),
     amount |-> AmountField(row, mappings, "amount"),
     balance |-> AmountField(row, mappings, "balance"),
     transactionType |-> TextField(row, mappings, "transactionType"),
     category |-> TextField(row, mappings, "category"),
     merchant |-> TextField(row, mappings, "merchant"),
     cardNumber |-> TextField(row, mappings, "cardNumber")]

\* truthiness of a text field of the dict
TextTruthy(text) == text # NoCell /\ text # EmptyStr

\* Rejection asking for a narration and a merchant
RejectionNeedsBoth(txn) ==
    IF txn.date = None THEN "Missing or invalid date"
    ELSE IF ~TextTruthy(txn.narration) \/ ~TextTruthy(txn.merchant)
      THEN "Missing narration/description"
    ELSE IF txn.withdrawal = None /\ txn.deposit = None /\ txn.amount = None
      THEN "Missing amount"
    ELSE NoneS

\* the validation of the required fields: the reason of the error entry, or
\* NoneS when the row is accepted
Rejection(txn) ==
    IF txn.date = None THEN "Missing or invalid date"
    ELSE IF ~TextTruthy(txn.narration) /\ ~TextTruthy(txn.merchant)
      THEN "Missing narration/description"
    ELSE IF txn.withdrawal = None /\ txn.deposit = None /\ txn.amount = None
      THEN "Missing amount"
    ELSE NoneS

RowError(row_idx, reason) == [row |-> row_idx, reason |-> reason]

\* `mapping.get` raises AttributeError on a descriptor that is no dict
RowRaises(mappings) == \E f \in DOMAIN mappings : ~mappings[f].dict

\* what one iteration of the row loop does with its row
RowOutcome(row, mappings) ==
    IF RowIsEmpty(row) THEN "empty"
    ELSE IF RowRaises(mappings) THEN "exception"
    ELSE IF Rejection(BuildTxn(row, mappings)) # NoneS THEN "rejected"
    ELSE "accepted"

\* SkipCount leaving the empty rows out
SkipCountNonEmpty(outcome) == IF outcome \in {"accepted", "empty"} THEN 0 ELSE 1

\* what the iteration adds to rows_skipped
SkipCount(outcome) == IF outcome = "accepted" THEN 0 ELSE 1

\* what the iteration appends to errors
ErrorEntries(row, row_idx, mappings) ==
    IF RowOutcome(row, mappings) = "exception"
      THEN << RowError(row_idx, "'str' object has no attribute 'get'") >>
    ELSE IF RowOutcome(row, mappings) = "rejected"
      THEN << RowError(row_idx, Rejection(BuildTxn(row, mappings))) >>
    ELSE <<>>

ErrorCap == 50

\* CapErrors that lets one more entry through
CapErrorsInclusive(errs) ==
    SubSeq(errs, 1, IF Len(errs) < ErrorCap + 1 THEN Len(errs) ELSE ErrorCap + 1)

\* errors[:50]
CapErrors(errs) ==
    SubSeq(errs, 1, IF Len(errs) < ErrorCap THEN Len(errs) ELSE ErrorCap)

\* the dict of a run that got through the row loop, and the error dict
PlayerResult(txns, errs, processed, skipped) ==
    [returned |-> TRUE, error |-> NoneS, transactions |-> txns,
     errors |-> CapErrors(errs), rows_processed |-> processed,
     rows_skipped |-> skipped]

ErrorResult(message) ==
    [returned |-> TRUE, error |-> message, transactions |-> <<>>,
     errors |-> <<>>, rows_processed |-> None, rows_skipped |-> None]

MaxDocRows == 3
MaxLongDoc == 52

SlashDate == DateCell(<<1, 4, 2025>>)
Narrated == TextCell(PlainDesc.body)
Shop == TextCell(<<"SHOP">>)

\* date | narration | merchant | withdrawal or amount | deposit or balance
TemplateRows ==
    {<<SlashDate, Narrated, Shop, NumCell(5000), NoCell>>,
     <<NoCell, Narrated, Shop, NumCell(5000), NoCell>>,
     <<DateCell(<<31, 2, 2025>>), Narrated, Shop, NumCell(5000), NoCell>>,
     <<DateCell(<<4, 13, 2025>>), Narrated, NoCell, NoCell, NumCell(5000)>>,
     <<DateCell(<<1, 4, 25>>), BlankCell, Shop, NumCell(5000), NoCell>>,
     <<SlashDate, BlankCell, NoCell, NumCell(5000), NoCell>>,
     <<SlashDate, NoCell, BlankCell, NumCell(5000), NoCell>>,
     <<SlashDate, Narrated, Shop, NumCell(0), NumCell(0)>>,
     <<SlashDate, Narrated, Shop, NoCell, NoCell>>,
     <<SlashDate, Narrated, Shop, TextCell(<<"N/A">>), DashCell>>,
     <<SlashDate, Narrated, NoCell, NumCell(0 - 500), NoCell>>,
     <<NoCell, BlankCell, NoCell, NoCell, NoCell>>,
     <<TextCell(<<"Date">>), TextCell(<<"Narration">>),
       TextCell(<<"Merchant">>), TextCell(<<"Withdrawal">>),
       TextCell(<<"Deposit">>)>>,
     <<SlashDate, Narrated>>,
     <<SlashDate, TextCell(<<"CREDIT", "INTEREST">>), NoCell, NoCell,
       NumCell(5000)>>}

\* well-formed TemplateMappings: field -> {source: 'col_N', format}
LedgerMapping ==
    [date |-> Mapping(0, NoneS), narration |-> Mapping(1, NoneS),
     withdrawal |-> Mapping(3, NoneS), deposit |-> Mapping(4, NoneS)]

CardMapping ==
    [date |-> Mapping(0, "MM/DD/YYYY"), merchant |-> Mapping(2, NoneS),
     amount |-> Mapping(3, NoneS)]

FullMapping ==
    [date |-> Mapping(0, "DD/MM/YYYY"), narration |-> Mapping(1, NoneS),
     merchant |-> Mapping(2, NoneS), amount |-> Mapping(3, NoneS),
     balance |-> Mapping(4, NoneS), reference |-> Mapping(9, NoneS),
     category |-> Mapping(None, NoneS)]

\* a payload whose date descriptor is a string
BrokenMapping ==
    [date |-> BadDescriptor, narration |-> Mapping(1, NoneS),
     amount |-> Mapping(3, NoneS)]

TemplateMappings == {LedgerMapping, CardMapping, FullMapping, BrokenMapping}

\* long tables of one repeated row: a row without a date, an empty row, a
\* good row
LongDocs ==
    {[i \in 1..n |-> r] :
        n \in {MaxLongDoc - 1, MaxLongDoc},
        r \in {<<NoCell, Narrated, Shop, NumCell(5000), NoCell>>,
               <<NoCell, BlankCell, NoCell, NoCell, NoCell>>,
               <<SlashDate, Narrated, Shop, NumCell(5000), NoCell>>}}

\* all_tables holds the rows of the tables of more than one row
TemplateDocs ==
    {d \in SeqsUpTo(TemplateRows, MaxDocRows) : Len(d) # 1} \cup LongDocs

InitPlayer ==
    /\ pc = "template"
    /\ input \in [rows : TemplateDocs, mappings : TemplateMappings]
    /\ transactions = <<>>
    /\ pass1 = <<>>
    /\ idx = 0
    /\ regular_transactions = <<>>
    /\ sweep_transactions = <<>>
    /\ cumulative_sweep = 0
    /\ table_transactions = NotRun
    /\ errors = <<>>
    /\ rows_skipped = 0
    /\ start_row = 0
    /\ result = NoResult
    /\ metadata = NoMetadata
    /\ stdout = <<>>
    /\ exit_status = None
    /\ handles = NoHandles

\* up to the row loop: no table, or the header boundary
PlayerStart ==
    /\ pc = "template"
    /\ IF input.rows = <<>>
       THEN /\ pc' = "template_error"
            /\ result' = ErrorResult("No tables found in PDF")
            /\ UNCHANGED <<idx, start_row>>
       ELSE /\ pc' = "template_rows"
            /\ start_row' = FindStartRow(input.rows)
            /\ idx' = FindStartRow(input.rows)
            /\ UNCHANGED result
    /\ UNCHANGED <<input, transactions, pass1, regular_transactions,
                   sweep_transactions, cumulative_sweep, mainVars, errors,
                   rows_skipped, metadata, stdout, exit_status, handles>>

\* one iteration of the row loop; row_idx counts from start_row + 1
PlayerRow ==
    /\ pc = "template_rows"
    /\ idx < Len(input.rows)
    /\ idx' = idx + 1
    /\ LET row == input.rows[idx + 1]
           row_idx == idx + 1
           outcome == RowOutcome(row, input.mappings)
       IN  /\ transactions' =
                  IF outcome = "accepted"
                  THEN Append(transactions, BuildTxn(row, input.mappings))
                  ELSE transactions
           /\ errors' = errors \o ErrorEntries(row, row_idx, input.mappings)
           /\ rows_skipped' = rows_skipped + SkipCount(outcome)
    /\ UNCHANGED <<pc, input, pass1, regular_transactions, sweep_transactions,
                   cumulative_sweep, mainVars, start_row, invokeVars>>

\* the row loop is over: the dict that is returned
PlayerDone ==
    /\ pc = "template_rows"
    /\ idx = Len(input.rows)
    /\ pc' = "template_done"
    /\ result' = PlayerResult(transactions, errors,
                              Len(input.rows) - start_row, rows_skipped)
    /\ UNCHANGED <<input, transactions, pass1, sweepVars, mainVars, playerVars,
                   metadata, stdout, exit_status, handles>>

NextPlayer ==
    \/ PlayerStart
    \/ PlayerRow
    \/ PlayerDone

SpecPlayer == InitPlayer /\ [][NextPlayer]_vars

-----------------------------------------------------------------------------
(* The value normalizers applied to single inputs *)

\* HDFC parse_date of the text 'd/m/y': '%d/%m/%y' takes a year of two
\* digits, '%d/%m/%Y' one of four, and the year of a parsed date is never
\* below 100
hdfc_parse_date(tok) ==
    IF tok[3] < 100 THEN parse_date_ddmmyy(tok)
    ELSE IF tok[3] >= 1000 /\ ValidDate(tok[1], tok[2], tok[3])
      THEN Iso(tok[3], tok[2], tok[1])
    ELSE None

DateDays == {1, 7, 29, 31}
DateMonths == {1, 2, 4}
DateYears == {0, 25, 68, 69, 72, 99}

\* template_extractor.detect_value_type(str(cell)) of a cell that is not
\* None: white space is unknown, a d/m/y text a date, a numeral of up to
\* three integer digits (or grouped by commas) an amount, a longer ungrouped
\* numeral a number, any other text is text
detect_value_type(cell) ==
    IF cell.kind = "blank" THEN "unknown"
    ELSE IF cell.kind = "date" THEN "date"
    ELSE IF cell.kind = "num"
      THEN IF Abs(cell.num) < 1000 * Scale THEN "amount" ELSE "number"
    ELSE "text"

SampleRows == 20

\* the `types` list of one column: the types of the truthy cells of the
\* column in data_rows[:20]
ColumnTypes(column) ==
    LET sample == SubSeq(column, 1,
                         IF Len(column) < SampleRows THEN Len(column)
                         ELSE SampleRows)
        truthy == SelectSeq(sample, ValueTruthy)
    IN  [i \in 1..Len(truthy) |-> detect_value_type(truthy[i])]

TypeCount(types, t) == Cardinality({i \in 1..Len(types) : types[i] = t})

FirstSeen(types, t) == CHOOSE i \in 1..Len(types) :
    types[i] = t /\ \A j \in 1..(i - 1) : types[j] # t

\* MostCommon with the last of the tied types winning
MostCommonLast(types) ==
    IF types = <<>> THEN "unknown"
    ELSE CHOOSE t \in {types[i] : i \in 1..Len(types)} :
             \A u \in {types[i] : i \in 1..Len(types)} :
                 \/ u = t
                 \/ TypeCount(types, t) > TypeCount(types, u)
                 \/ /\ TypeCount(types, t) = TypeCount(types, u)
                    /\ FirstSeen(types, t) > FirstSeen(types, u)

\* max(type_counts.items(), key=count)[0]: the counts are kept in the order
\* the types were first seen and max returns the first of the largest
MostCommon(types) ==
    IF types = <<>> THEN "unknown"
    ELSE CHOOSE t \in {types[i] : i \in 1..Len(types)} :
             \A u \in {types[i] : i \in 1..Len(types)} :
                 \/ u = t
                 \/ TypeCount(types, t) > TypeCount(types, u)
                 \/ /\ TypeCount(types, t) = TypeCount(types, u)
                    /\ FirstSeen(types, t) < FirstSeen(types, u)

\* the entry of column_types for one column
column_type(column) == MostCommon(ColumnTypes(column))

\* columns made of three runs of equal cells
RunLengths == {0, 1, 8, 10, 12, 20}

RunCells ==
    {DateCell(<<1, 4, 2025>>), NumCell(5000), NumCell(150050),
     TextCell(<<"UPI", "PAYMENT">>), BlankCell, NoCell}

Run(cell, n) == [i \in 1..n |-> cell]

VoteColumns ==
    {Run(a, k) \o Run(b, l) \o Run(c, n) :
        a \in RunCells, b \in RunCells \ {BlankCell}, c \in {TextCell(<<"UPI", "PAYMENT">>), NumCell(5000)},
        k \in RunLengths, l \in RunLengths, n \in {0, 1, 12}}

\* amounts from 0.5 to 1,200,000.0, with one, two, three, four and seven
\* integer digits, and a negative one
FlagAmounts ==
    {5, 505, 550, 555, 3340, 5000, 11000, 12000, 10000000, 10000010,
     11000000, 12000000, 0 - 11000}

\* the decorations of an amount, in the order of its text
AmountMarks ==
    {<<>>, <<"(">>, <<"-">>, <<"DR">>, <<"CR">>, <<"(", "-">>, <<"(", "DR">>,
     <<"-", "DR">>, <<"-", "CR">>, <<"(", "CR">>, <<"currency">>,
     <<"currency", "CR">>, <<"currency", "(">>}

AmountInputs ==
    {AmountText(v, marks) : v \in {0, 5000, 15005}, marks \in AmountMarks}
    \cup {NumCell(5000), NumCell(0 - 500), NoCell, BlankCell, DashCell,
          TextCell(<<"N/A">>), TextCell(<<"inf">>), TextCell(<<"DR">>),
          TextCell(<<"UPI", "PAYMENT">>)}

InitValues ==
    /\ \/ /\ pc \in {"hdfc_parse_date", "template_parse_date"}
          /\ input \in [d : DateDays, m : DateMonths, yy : DateYears]
       \/ /\ pc = "parse_amount"
          /\ input \in AmountInputs
       \/ /\ pc = "column_type"
          /\ input \in VoteColumns
       \/ /\ pc = "hdfc_line"
          /\ input \in HdfcLines
       \/ /\ pc = "flag_suspicious_amounts"
          /\ input \in {<<Txn(20260201, PlainDesc, a, ty, b)>> :
                          a \in FlagAmounts, ty \in {"debit", "credit"},
                          b \in {None, 1000}}
    /\ transactions = <<>>
    /\ pass1 = <<>>
    /\ idx = 0
    /\ regular_transactions = <<>>
    /\ sweep_transactions = <<>>
    /\ cumulative_sweep = 0
    /\ table_transactions = NotRun
    /\ errors = <<>>
    /\ rows_skipped = 0
    /\ start_row = 0
    /\ result = NoResult
    /\ metadata = NoMetadata
    /\ stdout = <<>>
    /\ exit_status = None
    /\ handles = NoHandles

Returned(fields) == [returned |-> TRUE] @@ fields

\* HDFC parse_date of 'dd/mm/yy' and of 'dd/mm/20yy'
ApplyHdfcParseDate ==
    /\ pc = "hdfc_parse_date"
    /\ pc' = "parsed_date"
    /\ result' = Returned(
           [short |-> hdfc_parse_date(<<input.d, input.m, input.yy>>),
            long |-> hdfc_parse_date(<<input.d, input.m, 2000 + input.yy>>)])
    /\ UNCHANGED <<input, transactions, pass1, sweepVars, mainVars, playerVars,
                   metadata, stdout, exit_status, handles>>

\* template parse_date of 'dd/mm/yy' and of 'dd/mm/20yy', without a hint
ApplyTemplateParseDate ==
    /\ pc = "template_parse_date"
    /\ pc' = "parsed_date"
    /\ result' = Returned(
           [short |-> template_parse_date(
                          DateCell(<<input.d, input.m, input.yy>>), NoneS),
            long |-> template_parse_date(
                         DateCell(<<input.d, input.m, 2000 + input.yy>>), NoneS)])
    /\ UNCHANGED <<input, transactions, pass1, sweepVars, mainVars, playerVars,
                   metadata, stdout, exit_status, handles>>

\* parse_amount of one text
ApplyParseAmount ==
    /\ pc = "parse_amount"
    /\ pc' = "parsed_amount"
    /\ result' = Returned([value |-> parse_amount(input)])
    /\ UNCHANGED <<input, transactions, pass1, sweepVars, mainVars, playerVars,
                   metadata, stdout, exit_status, handles>>

\* the body of the line loop of hdfc extract_transactions on one line
ApplyHdfcLine ==
    /\ pc = "hdfc_line"
    /\ pc' = "line_extracted"
    /\ result' = Returned([transactions |-> HdfcLineRecord(input)])
    /\ UNCHANGED <<input, transactions, pass1, sweepVars, mainVars, playerVars,
                   metadata, stdout, exit_status, handles>>

\* flag_suspicious_amounts on a list of one record
ApplyFlag ==
    /\ pc = "flag_suspicious_amounts"
    /\ pc' = "flagged"
    /\ result' = Returned([transactions |-> flag_suspicious_amounts(input)])
    /\ UNCHANGED <<input, transactions, pass1, sweepVars, mainVars, playerVars,
                   metadata, stdout, exit_status, handles>>

\* the type vote of one column of the data rows
ApplyColumnType ==
    /\ pc = "column_type"
    /\ pc' = "voted"
    /\ result' = Returned([type |-> column_type(input)])
    /\ UNCHANGED <<input, transactions, pass1, sweepVars, mainVars, playerVars,
                   metadata, stdout, exit_status, handles>>

NextValues ==
    \/ ApplyHdfcParseDate
    \/ ApplyTemplateParseDate
    \/ ApplyParseAmount
    \/ ApplyColumnType
    \/ ApplyFlag
    \/ ApplyHdfcLine

SpecValues == InitValues /\ [][NextValues]_vars

-----------------------------------------------------------------------------
(* One invocation of a parser program: main of hdfc_pdf_parser.py, of      *)
(* kotak_pdf_parser.py and of template_parser.py, from the argument check  *)
(* to the exit of the process                                              *)

\* what one invocation is given: enough arguments or not, a document that
\* cannot be opened, one without pages or one with pages, the text lines and
\* table rows of its pages, and for the template player the mapping argument
\* (parseable JSON or not) and the mappings it holds
Invocation(program, argc_ok, document, json_ok, lines, rows, mappings) ==
    [program |-> program, argc_ok |-> argc_ok, document |-> document,
     json_ok |-> json_ok, lines |-> lines, rows |-> rows,
     mappings |-> mappings]

Documents == {"unreadable", "no_pages", "pages"}

KotakDebitRow ==
    <<NumCell(10), DateCell(<<1, 2, 2026>>), TextCell(PlainDesc.body), RefCell,
      NumCell(5000), NoCell, NumCell(5000)>>

\* a row whose withdrawal is 0.00
KotakZeroRow ==
    <<NumCell(10), DateCell(<<1, 2, 2026>>), TextCell(PlainDesc.body), RefCell,
      NumCell(0), NoCell, NumCell(5000)>>

KotakDatelessRow ==
    <<NumCell(10), NoCell, TextCell(PlainDesc.body), RefCell, NumCell(5000),
      NoCell, NumCell(5000)>>

InvokeKotakRows == {KotakDebitRow, KotakZeroRow, KotakDatelessRow}

InvokeTemplateRows ==
    {<<TextCell(<<"Date">>), TextCell(<<"Narration">>),
       TextCell(<<"Merchant">>), TextCell(<<"Withdrawal">>),
       TextCell(<<"Deposit">>)>>,
     <<SlashDate, Narrated, Shop, NumCell(5000), NoCell>>,
     <<NoCell, Narrated, Shop, NumCell(5000), NoCell>>}

Invocations ==
    {Invocation("hdfc", a, d, TRUE, l, r, LedgerMapping) :
        a \in BOOLEAN, d \in Documents \ {"pages"}, l \in {<<>>}, r \in {<<>>}}
    \cup
    {Invocation("hdfc", a, "pages", TRUE, l, r, LedgerMapping) :
        a \in BOOLEAN, l \in SeqsUpTo(BackfillLines, MaxRows),
        r \in SeqsUpTo(BackfillRows, 1)}
    \cup
    {Invocation("kotak", a, d, TRUE, l, r, LedgerMapping) :
        a \in BOOLEAN, d \in Documents \ {"pages"}, l \in {<<>>}, r \in {<<>>}}
    \cup
    {Invocation("kotak", a, "pages", TRUE, l, r, LedgerMapping) :
        a \in BOOLEAN, l \in {<<>>}, r \in SeqsUpTo(InvokeKotakRows, MaxRows)}
    \cup
    {Invocation("template", a, d, j, l, r, mp) :
        a \in BOOLEAN, d \in Documents \ {"pages"}, j \in BOOLEAN,
        l \in {<<>>}, r \in {<<>>}, mp \in {LedgerMapping}}
    \cup
    {Invocation("template", a, "pages", j, l, r, mp) :
        a \in BOOLEAN, j \in BOOLEAN, l \in {<<>>},
        r \in SeqsUpTo(InvokeTemplateRows, MaxRows),
        mp \in {LedgerMapping, BrokenMapping}}

\* the JSON document printed on standard output: its 'success' key ("absent"
\* when it has none), its 'error' key (NoneS when it has none) and the number
\* of transactions it carries
Payload(success, error, count) ==
    [success |-> success, error |-> error, count |-> count]

\* pdfplumber.open(...) entered: the handle is acquired
Acquire(hs, h) == (h :> "open") @@ hs

\* Leave releasing the handle only when the block ends without an exception
LeaveUnlessRaised(hs, h, raised) ==
    IF raised THEN hs ELSE [hs EXCEPT ![h] = "released"]

\* the end of a `with pdfplumber.open(...) as pdf` block, by its last
\* statement, by a return or by an exception
Leave(hs, h, raised) == [hs EXCEPT ![h] = "released"]

\* the row loop of kotak extract_transactions over all the rows of the tables
RECURSIVE kotak_extract_rows(_)
kotak_extract_rows(rows) ==
    IF rows = <<>> THEN <<>>
    ELSE KotakRowRecord(Head(rows)) \o kotak_extract_rows(Tail(rows))

InitInvoke ==
    /\ pc = "main"
    /\ input \in Invocations
    /\ transactions = <<>>
    /\ pass1 = <<>>
    /\ idx = 0
    /\ regular_transactions = <<>>
    /\ sweep_transactions = <<>>
    /\ cumulative_sweep = 0
    /\ table_transactions = NotRun
    /\ errors = <<>>
    /\ rows_skipped = 0
    /\ start_row = 0
    /\ result = NoResult
    /\ metadata = NoMetadata
    /\ stdout = <<>>
    /\ exit_status = None
    /\ handles = NoHandles

\* `if len(sys.argv) < N`: the usage error and sys.exit(1)
InvokeArgs ==
    /\ pc = "main"
    /\ IF input.argc_ok
       THEN /\ pc' = input.program \o "_args"
            /\ UNCHANGED <<stdout, exit_status>>
       ELSE /\ pc' = "exited"
            /\ stdout' = Append(stdout,
                                Payload("absent", "No PDF file path provided", None))
            /\ exit_status' = 1
    /\ UNCHANGED <<input, transactions, pass1, sweepVars, mainVars, playerVars,
                   result, metadata, handles>>

\* kotak main: `with pdfplumber.open(pdf_path, **open_kwargs) as pdf`
KotakOpenMetadata ==
    /\ pc = "kotak_args"
    /\ IF input.document = "unreadable"
       THEN pc' = "kotak_error" /\ UNCHANGED handles
       ELSE pc' = "kotak_metadata" /\ handles' = Acquire(handles, 1)
    /\ UNCHANGED <<input, transactions, pass1, sweepVars, mainVars, playerVars,
                   result, metadata, stdout, exit_status>>

\* extract_account_metadata(pdf) and extract_opening_balance(pdf), and the end
\* of the block; pdf.pages[0] raises IndexError when there is no page
KotakReadMetadata ==
    /\ pc = "kotak_metadata"
    /\ handles' = Leave(handles, 1, input.document = "no_pages")
    /\ pc' = IF input.document = "no_pages" THEN "kotak_error"
             ELSE "kotak_reopen"
    /\ UNCHANGED <<input, transactions, pass1, sweepVars, mainVars, playerVars,
                   result, metadata, stdout, exit_status>>

\* extract_transactions(pdf_path, password) opens the document again
KotakOpenExtract ==
    /\ pc = "kotak_reopen"
    /\ pc' = "kotak_table"
    /\ handles' = Acquire(handles, 2)
    /\ UNCHANGED <<input, transactions, pass1, sweepVars, mainVars, playerVars,
                   result, metadata, stdout, exit_status>>

\* the page and row loops, and the end of the block
KotakExtractRows ==
    /\ pc = "kotak_table"
    /\ pc' = "kotak_rows_end"
    /\ transactions' = kotak_extract_rows(input.rows)
    /\ handles' = Leave(handles, 2, FALSE)
    /\ UNCHANGED <<input, pass1, sweepVars, mainVars, playerVars, result,
                   metadata, stdout, exit_status>>

\* kotak main after handle_sweep_transfers: the closing balance and the
\* success document
KotakPrint ==
    /\ pc = "swept"
    /\ pc' = "returned"
    /\ metadata' =
           IF regular_transactions # <<>>
           THEN [metadata EXCEPT !.closingBalance =
                    transactions[regular_transactions[
                        Len(regular_transactions)]].balance]
           ELSE metadata
    /\ stdout' = Append(stdout,
                        Payload("true", NoneS, Len(regular_transactions)))
    /\ UNCHANGED <<input, transactions, pass1, sweepVars, mainVars, playerVars,
                   result, exit_status, handles>>

\* hdfc main: `with pdfplumber.open(pdf_path, **open_kwargs) as pdf`
HdfcOpen ==
    /\ pc = "hdfc_args"
    /\ IF input.document = "unreadable"
       THEN pc' = "hdfc_error" /\ UNCHANGED handles
       ELSE pc' = "hdfc_metadata" /\ handles' = Acquire(handles, 1)
    /\ UNCHANGED <<input, transactions, pass1, sweepVars, mainVars, playerVars,
                   result, metadata, stdout, exit_status>>

\* extract_account_metadata(pdf); pdf.pages[0] raises IndexError when there
\* is no page, which ends the block
HdfcReadMetadata ==
    /\ pc = "hdfc_metadata"
    /\ IF input.document = "no_pages"
       THEN pc' = "hdfc_error" /\ handles' = Leave(handles, 1, TRUE)
       ELSE pc' = "hdfc_main" /\ UNCHANGED handles
    /\ UNCHANGED <<input, transactions, pass1, sweepVars, mainVars, playerVars,
                   result, metadata, stdout, exit_status>>

\* the success document, printed as the last statement of the block
HdfcPrint ==
    /\ pc = "hdfc_main_filled"
    /\ pc' = "returned"
    /\ stdout' = Append(stdout, Payload("true", NoneS, Len(transactions)))
    /\ handles' = Leave(handles, 1, FALSE)
    /\ UNCHANGED <<input, transactions, pass1, sweepVars, mainVars, playerVars,
                   result, metadata, exit_status>>

\* `except Exception as e` of hdfc main and kotak main: the failure document
\* and sys.exit(1)
InvokeExcept ==
    /\ pc \in {"hdfc_error", "kotak_error"}
    /\ pc' = "exited"
    /\ stdout' = Append(stdout, Payload("false", "str(e)", None))
    /\ exit_status' = 1
    /\ UNCHANGED <<input, transactions, pass1, sweepVars, mainVars, playerVars,
                   result, metadata, handles>>

\* template main: mappings = json.loads(sys.argv[2]), outside any try; a
\* JSONDecodeError ends the process with a traceback on standard error
TemplateLoadMappings ==
    /\ pc = "template_args"
    /\ IF input.json_ok
       THEN pc' = "template_open" /\ UNCHANGED exit_status
       ELSE pc' = "crashed" /\ exit_status' = 1
    /\ UNCHANGED <<input, transactions, pass1, sweepVars, mainVars, playerVars,
                   result, metadata, stdout, handles>>

\* parse_pdf_with_template: `with pdfplumber.open(pdf_path, **pdf_options)`;
\* an exception is turned into the error dict
TemplateOpen ==
    /\ pc = "template_open"
    /\ IF input.document = "unreadable"
       THEN /\ pc' = "template_returned"
            /\ result' = ErrorResult("str(e)")
            /\ UNCHANGED handles
       ELSE /\ pc' = "template"
            /\ handles' = Acquire(handles, 1)
            /\ UNCHANGED result
    /\ UNCHANGED <<input, transactions, pass1, sweepVars, mainVars, playerVars,
                   metadata, stdout, exit_status>>

\* the return statements inside the block end it
TemplateReturn ==
    /\ pc \in {"template_error", "template_done"}
    /\ pc' = "template_returned"
    /\ handles' = Leave(handles, 1, FALSE)
    /\ UNCHANGED <<input, transactions, pass1, sweepVars, mainVars, playerVars,
                   result, metadata, stdout, exit_status>>

\* print(json.dumps(result))
TemplatePrint ==
    /\ pc = "template_returned"
    /\ pc' = "returned"
    /\ stdout' = Append(stdout, Payload("absent", result.error,
                                        Len(result.transactions)))
    /\ UNCHANGED <<input, transactions, pass1, sweepVars, mainVars, playerVars,
                   result, metadata, exit_status, handles>>

\* main returns and the interpreter exits with status 0
InvokeExit ==
    /\ pc = "returned"
    /\ pc' = "exited"
    /\ exit_status' = 0
    /\ UNCHANGED <<input, transactions, pass1, sweepVars, mainVars, playerVars,
                   result, metadata, stdout, handles>>

NextInvoke ==
    \/ InvokeArgs
    \/ KotakOpenMetadata
    \/ KotakReadMetadata
    \/ KotakOpenExtract
    \/ KotakExtractRows
    \/ ExtractKotakValidate
    \/ ExtractKotakFlag
    \/ SweepStart
    \/ SweepStep
    \/ SweepDone
    \/ KotakPrint
    \/ HdfcOpen
    \/ HdfcReadMetadata
    \/ MainExtract
    \/ MainFallback
    \/ MainValidate
    \/ MainBackFill
    \/ HdfcPrint
    \/ InvokeExcept
    \/ TemplateLoadMappings
    \/ TemplateOpen
    \/ PlayerStart
    \/ PlayerRow
    \/ PlayerDone
    \/ TemplateReturn
    \/ TemplatePrint
    \/ InvokeExit

SpecInvoke == InitInvoke /\ [][NextInvoke]_vars

-----------------------------------------------------------------------------
(* Claims about the reconciliation passes (SpecRecon) *)

BothBalances(txns, i) ==
    i >= 2 /\ txns[i - 1].balance # None /\ txns[i].balance # None

Delta(txns, i) == Abs(txns[i - 1].balance - txns[i].balance)

Inflated(txns, i) ==
    /\ BothBalances(txns, i)
    /\ txns[i].amount \in {10 * Delta(txns, i), 100 * Delta(txns, i)}

OverTolerance(txns, i) ==
    Abs(Delta(txns, i) - txns[i].amount) > Tolerance * Scale

CorrectedToDelta(i) ==
    /\ transactions[i].amount = Delta(input, i)
    /\ transactions[i].amountCorrected = TRUE
    /\ transactions[i].originalAmount = input[i].amount

\* C1 as stated: every record whose amount is exactly 10 or 100 times the
\* balance difference to its predecessor leaves validate_with_balance with
\* that difference as its amount and amountCorrected set.
C1_Original ==
    pc = "kotak_again" =>
        \A i \in 2..Len(input) :
            Inflated(input, i) =>
                /\ transactions[i].amount = Delta(input, i)
                /\ transactions[i].amountCorrected = TRUE

\* C1 amended: a record whose amount is exactly 10 or 100 times the balance
\* difference to its predecessor, and differs from that difference by more
\* than the tolerance of one unit, leaves validate_with_balance with the
\* difference as its amount, amountCorrected set and the extracted amount
\* kept in originalAmount.
C1_Convergence ==
    pc = "kotak_again" =>
        \A i \in 2..Len(input) :
            (Inflated(input, i) /\ OverTolerance(input, i)) =>
                CorrectedToDelta(i)

C1_Witness ==
    /\ pc = "kotak_again"
    /\ Len(input) = 3
    /\ Inflated(input, 2) /\ input[2].amount = 10 * Delta(input, 2)
    /\ Inflated(input, 3) /\ input[3].amount = 100 * Delta(input, 3)
    /\ OverTolerance(input, 2) /\ OverTolerance(input, 3)
    /\ CorrectedToDelta(2) /\ CorrectedToDelta(3)

ReconView(t) ==
    [amount |-> t.amount, transactionType |-> t.transactionType,
     amountCorrected |-> t.amountCorrected,
     originalAmount |-> t.originalAmount, balance |-> t.balance]

\* C2 as stated: a second reconciliation pass over the output of the first
\* changes neither the order of the records nor any record's amount,
\* transactionType, amountCorrected or originalAmount, for validate_with_balance
\* and for validate_transaction_types.
C2_Idempotent ==
    pc \in {"kotak_done", "hdfc_done"} =>
        /\ Len(transactions) = Len(pass1)
        /\ \A i \in 1..Len(pass1) :
               ReconView(transactions[i]) = ReconView(pass1[i])

\* the number of dated records at the head of an HDFC result
NumValid(txns) == Len(SelectSeq(txns, HasDate))

\* the dated records as the HDFC pass sorted them, before its type loop
HdfcSortedInput == SortByDate(SelectSeq(fix_embedded_dates(input), HasDate))

DirectionType(prev, curr) ==
    IF prev.balance > curr.balance THEN "debit" ELSE "credit"

\* C3 as stated: after either pass, a record whose predecessor and itself
\* both have a balance is a debit if the balance fell and a credit otherwise,
\* equal balances included.
C3_Original ==
    /\ pc = "kotak_again" =>
          \A i \in 2..Len(transactions) :
              BothBalances(transactions, i) =>
                  transactions[i].transactionType =
                      DirectionType(transactions[i - 1], transactions[i])
    /\ pc = "hdfc_again" =>
          \A i \in 2..NumValid(transactions) :
              BothBalances(transactions, i) =>
                  transactions[i].transactionType =
                      DirectionType(transactions[i - 1], transactions[i])

\* C3 amended: after validate_with_balance the record is a debit if the
\* balance fell and a credit otherwise; after validate_transaction_types a
\* dated record is a debit if the balance fell, a credit if it rose, and
\* keeps its extracted type if the two balances are equal.
C3_TypeFollowsBalance ==
    /\ pc = "kotak_again" =>
          \A i \in 2..Len(transactions) :
              BothBalances(transactions, i) =>
                  transactions[i].transactionType =
                      DirectionType(transactions[i - 1], transactions[i])
    /\ pc = "hdfc_again" =>
          \A i \in 2..NumValid(transactions) :
              BothBalances(transactions, i) =>
                  transactions[i].transactionType =
                      IF transactions[i - 1].balance = transactions[i].balance
                      THEN HdfcSortedInput[i].transactionType
                      ELSE DirectionType(transactions[i - 1], transactions[i])

C3_Witness ==
    /\ pc = "hdfc_again"
    /\ NumValid(transactions) = 3
    /\ BothBalances(transactions, 2) /\ BothBalances(transactions, 3)
    /\ transactions[1].balance = transactions[2].balance
    /\ transactions[2].transactionType = "debit"
    /\ transactions[2].balance > transactions[3].balance
    /\ HdfcSortedInput[3].transactionType = "credit"
    /\ transactions[3].transactionType = "debit"

-----------------------------------------------------------------------------
(* Claims about the row extractors (SpecExtract) *)

AllButLast(seq) == IF seq = <<>> THEN <<>> ELSE SubSeq(seq, 1, Len(seq) - 1)

\* the withdrawal and deposit values a line or row carries: its numeric
\* values other than the balance
HdfcLineAmounts(line) == AllButLast(NumericValues(line.parts))

HdfcRowAmounts(row) ==
    NumericValues((IF Len(row) > 5 THEN <<row[Len(row) - 2]>> ELSE <<>>)
                  \o (IF Len(row) > 4 THEN <<row[Len(row) - 1]>> ELSE <<>>))

KotakRowAmounts(row) ==
    IF FirstDate(row) = 0 \/ FirstDate(row) + 3 > Len(row) THEN <<>>
    ELSE AllButLast(NumericValues(SubSeq(row, FirstDate(row) + 3, Len(row))))

AbsentOrZero(values) == \A i \in 1..Len(values) : values[i] = 0

RowAbsentOrZero(where, row) ==
    \/ where = "hdfc_lines" /\ AbsentOrZero(HdfcLineAmounts(row))
    \/ where = "hdfc_tables" /\ AbsentOrZero(HdfcRowAmounts(row))
    \/ where = "kotak_rows" /\ AbsentOrZero(KotakRowAmounts(row))

AmountsPositive ==
    \A i \in 1..Len(transactions) :
        transactions[i].amount # None /\ transactions[i].amount > 0

\* C4 as stated: every transaction a dialect extractor emits, and every
\* transaction of the extractor's final list, has a non-null amount greater
\* than 0, and a line or row whose withdrawal and deposit values are all
\* absent or zero appends no record.
C4_AmountPositive ==
    /\ [](pc \in {"hdfc_lines", "hdfc_tables", "kotak_rows", "kotak_validated",
                  "kotak_extracted"} => AmountsPositive)
    /\ [][(idx' = idx + 1 /\ RowAbsentOrZero(pc, input'[1]))
            => transactions' = transactions]_vars

-----------------------------------------------------------------------------
(* Claims about the sweep normaliser and the flagger (SpecSweep) *)

IsSweepTo(t) == t.description = SweepToDesc
IsSweepFrom(t) == t.description = SweepFromDesc

\* SWEEP TO amounts minus SWEEP FROM amounts among the first n records
RECURSIVE NetSweep(_, _)
NetSweep(txns, n) ==
    IF n = 0 THEN 0
    ELSE NetSweep(txns, n - 1)
         + (IF IsSweepTo(txns[n]) THEN txns[n].amount
            ELSE IF IsSweepFrom(txns[n]) THEN 0 - txns[n].amount
            ELSE 0)

Range(seq) == {seq[k] : k \in 1..Len(seq)}

Increasing(seq) == \A k \in 1..(Len(seq) - 1) : seq[k] < seq[k + 1]

IsPrefix(a, b) == Len(a) <= Len(b) /\ SubSeq(b, 1, Len(a)) = a

\* C5: a regular transaction preceded by a positive net sweep total c, and
\* having a balance, carries shownBalance = its statement balance,
\* sweepAdjustment = c and balance = shownBalance + c; one preceded by a
\* net total of 0 keeps its statement balance and gets no adjustment.
C5_SweepConservation ==
    pc \in {"sweep", "swept"} =>
        \A k \in 1..Len(regular_transactions) :
            LET j == regular_transactions[k]
                c == NetSweep(pass1, j - 1)
            IN  /\ (c > 0 /\ pass1[j].balance # None) =>
                       /\ transactions[j].shownBalance = pass1[j].balance
                       /\ transactions[j].sweepAdjustment = c
                       /\ transactions[j].balance = pass1[j].balance + c
                /\ c = 0 =>
                       /\ transactions[j].balance = pass1[j].balance
                       /\ transactions[j].shownBalance = None
                       /\ transactions[j].sweepAdjustment = None

C5_Witness ==
    /\ pc = "swept"
    /\ Len(pass1) = 3
    /\ IsSweepTo(pass1[1]) /\ pass1[1].amount = 505
    /\ regular_transactions = <<2, 3>>
    /\ pass1[2].balance = 1000 /\ transactions[2].balance = 1505
    /\ transactions[2].shownBalance = 1000
    /\ transactions[2].sweepAdjustment = 505
    /\ pass1[3].balance = None /\ transactions[3].sweepAdjustment = None

\* C6: an iteration of handle_sweep_transfers changes no field of a
\* transaction it has already passed and only appends to the two lists; as
\* long as no sweep entry has been met it changes no transaction at all; and
\* the adjustment of a regular transaction is a function of the sweep
\* entries before it alone.
C6_ForwardOnly ==
    /\ [](pc \in {"sweep", "swept"} =>
            \A j \in Range(regular_transactions) :
                transactions[j].sweepAdjustment =
                    IF NetSweep(pass1, j - 1) > 0 /\ pass1[j].balance # None
                    THEN NetSweep(pass1, j - 1) ELSE None)
    /\ [][pc = "sweep" =>
          /\ \A j \in 1..idx : transactions'[j] = transactions[j]
          /\ IsPrefix(regular_transactions, regular_transactions')
          /\ IsPrefix(sweep_transactions, sweep_transactions')
          /\ (idx < Len(transactions) /\ NetSweep(pass1, idx) = 0
              /\ \A j \in 1..(idx + 1) :
                     ~IsSweepTo(pass1[j]) /\ ~IsSweepFrom(pass1[j]))
                 => transactions' = transactions]_vars

C6_Witness ==
    /\ pc = "swept"
    /\ Len(pass1) = 3
    /\ ~IsSweepTo(pass1[1]) /\ ~IsSweepFrom(pass1[1])
    /\ pass1[1].balance = 1000
    /\ IsSweepTo(pass1[2])
    /\ regular_transactions = <<1, 3>>
    /\ transactions[1].balance = 1000 /\ transactions[1].shownBalance = None
    /\ transactions[3].shownBalance = 1000
    /\ transactions[3].balance = 1000 + pass1[2].amount

\* C7: handle_sweep_transfers splits the transactions it has passed into
\* the sweep list (exactly those whose description matches SWEEP TRANSFER TO
\* or FROM [acct], tagged isSweep, to_fd or from_fd, and the account) and
\* the main list (all others, untagged), both in input order, no
\* transaction in both, and at the end the two lengths add up to the input's.
C7_Partition ==
    pc \in {"sweep", "swept"} =>
        /\ Len(regular_transactions) + Len(sweep_transactions) = idx
        /\ pc = "swept" => idx = Len(input)
        /\ Increasing(regular_transactions) /\ Increasing(sweep_transactions)
        /\ Range(regular_transactions) \cap Range(sweep_transactions) = {}
        /\ \A j \in 1..idx :
              IF IsSweepTo(pass1[j]) \/ IsSweepFrom(pass1[j])
              THEN /\ j \in Range(sweep_transactions)
                   /\ transactions[j].isSweep = TRUE
                   /\ transactions[j].sweepType =
                          IF IsSweepTo(pass1[j]) THEN "to_fd" ELSE "from_fd"
                   /\ transactions[j].sweepAccountNumber =
                          IF IsSweepTo(pass1[j]) THEN "8881" ELSE "8882"
              ELSE /\ j \in Range(regular_transactions)
                   /\ transactions[j].isSweep = FALSE
                   /\ transactions[j].sweepType = NoneS
                   /\ transactions[j].sweepAccountNumber = NoneS

C7_Witness ==
    /\ pc = "swept"
    /\ Len(input) = 3
    /\ IsSweepFrom(pass1[1]) /\ ~IsSweepTo(pass1[2]) /\ ~IsSweepFrom(pass1[2])
    /\ IsSweepTo(pass1[3])
    /\ sweep_transactions = <<1, 3>>
    /\ regular_transactions = <<2>>

Unflagged(t) ==
    [t EXCEPT !.suspicious = FALSE, !.suspiciousReason = NoReason]

\* C8: flag_suspicious_amounts returns the records it was given, in the same
\* number and order, with no field other than suspicious and
\* suspiciousReason changed (amount, transactionType and balance included).
C8_FlagAdvisory ==
    pc = "kotak_extracted" =>
        /\ Len(transactions) = Len(pass1)
        /\ \A i \in 1..Len(pass1) : Unflagged(transactions[i]) = pass1[i]

C8_Witness ==
    /\ pc = "kotak_extracted"
    /\ Len(transactions) = 3
    /\ transactions[1].suspicious = TRUE
    /\ transactions[1].suspiciousReason = Reason("First two digits are same", 11)
    /\ transactions[1].amount = 11000
    /\ transactions[2].suspicious = TRUE
    /\ transactions[2].suspiciousReason =
           Reason("Large amount - please verify", None)
    /\ transactions[3].suspicious = FALSE /\ transactions[3].amount = 505

-----------------------------------------------------------------------------
(* Claims about the HDFC pipeline (SpecMain) *)

LineOutput == hdfc_extract_transactions(input.lines)
TableOutput == extract_transactions_from_tables(input.rows)

\* C9: the list handed to the reconciliation pass is the table extractor's
\* output exactly when the line extractor found fewer than 5 transactions
\* and the table extractor found strictly more than it; otherwise it is the
\* line extractor's output, and with 5 or more line transactions the table
\* extractor has not been run.
C9_FallbackPolicy ==
    LET useTable == Len(LineOutput) < 5 /\ Len(TableOutput) > Len(LineOutput)
        chosen == IF pc = "hdfc_main_done" THEN pass1 ELSE transactions
    IN  pc \in {"hdfc_main_chosen", "hdfc_main_done"} =>
            /\ (chosen = TableOutput /\ chosen # LineOutput) <=> useTable
            /\ ~useTable => chosen = LineOutput
            /\ Len(LineOutput) >= 5 => table_transactions = NotRun

C9_Witness ==
    /\ pc = "hdfc_main_done"
    /\ Len(LineOutput) = 4
    /\ Len(TableOutput) = 5
    /\ pass1 = TableOutput
    /\ Len(transactions) = 5
    /\ transactions[1].amount = 7000

-----------------------------------------------------------------------------
(* Claims about the template player (SpecPlayer) *)

ResolvedDate(t) == t.date # None

NamedParty(t) ==
    \/ t.narration.kind \notin {"none", "blank"} /\ t.narration # EmptyStr
    \/ t.merchant.kind \notin {"none", "blank"} /\ t.merchant # EmptyStr

CarriesAmount(t) ==
    t.withdrawal # None \/ t.deposit # None \/ t.amount # None

\* C10: the row loop appends a row's transaction exactly when the row has a
\* resolved date, a non-empty narration or merchant, and at least one of
\* withdrawal, deposit and amount, and appends nothing otherwise; so every
\* transaction of the output has all three.
C10_RowAcceptance ==
    /\ [](pc \in {"template_rows", "template_done"} =>
            \A i \in 1..Len(transactions) :
                /\ ResolvedDate(transactions[i])
                /\ NamedParty(transactions[i])
                /\ CarriesAmount(transactions[i]))
    /\ [][(pc = "template_rows" /\ idx' = idx + 1) =>
            LET t == BuildTxn(input.rows[idx + 1], input.mappings)
            IN  IF ResolvedDate(t) /\ NamedParty(t) /\ CarriesAmount(t)
                THEN transactions' = Append(transactions, t)
                ELSE transactions' = transactions]_vars

C10_Witness ==
    /\ pc = "template_done"
    /\ input.mappings = CardMapping
    /\ Len(input.rows) = 3
    /\ start_row = 0
    /\ Len(transactions) = 1
    /\ transactions[1].amount = 0
    /\ transactions[1].narration = NoCell
    /\ transactions[1].merchant = Shop
    /\ rows_skipped = 2
    /\ Len(errors) = 2
    /\ errors[1].reason = "Missing narration/description"
    /\ errors[2].reason = "Missing or invalid date"

Min(a, b) == IF a < b THEN a ELSE b

Succeeded == result.returned /\ result.error = NoneS

\* the rows after the header boundary that the loop has passed
PassedRows == (start_row + 1)..idx

NonEmptyRow(row) == \E i \in 1..Len(row) : row[i].kind \notin {"none", "blank"}

\* C11: while the row loop runs, every row after the header boundary that it
\* has passed is counted exactly once, as skipped or as an emitted
\* transaction; and every non-error result has
\* rows_processed - rows_skipped = len(transactions), with rows_processed
\* the number of rows after the boundary.
C11_RowAccounting ==
    /\ pc \in {"template_rows", "template_done"} =>
           /\ Cardinality(PassedRows) = rows_skipped + Len(transactions)
           /\ rows_skipped >= 0
    /\ Succeeded =>
           /\ result.rows_processed - result.rows_skipped
                  = Len(result.transactions)
           /\ result.rows_processed = Len(input.rows) - start_row

C11_Witness ==
    /\ pc = "template_done"
    /\ Succeeded
    /\ start_row = 1
    /\ result.rows_processed = 2
    /\ result.rows_skipped = 1
    /\ Len(result.transactions) = 1
    /\ result.errors = <<>>

\* the statement of C12 as the claim has it: the returned list has
\* min(50, rows_skipped) entries
C12_Original ==
    Succeeded => Len(result.errors) = Min(50, result.rows_skipped)

\* C12: every row that is skipped and is not empty appends exactly one error
\* entry holding its row index and a reason, an empty row is skipped
\* without an entry, and the returned list is the first 50 of the entries:
\* min(50, number of skipped non-empty rows), never more than 50 and never
\* more than rows_skipped.
C12_ErrorPerSkippedRow ==
    LET emitted(row) ==
            /\ ~RowRaises(input.mappings)
            /\ ResolvedDate(BuildTxn(row, input.mappings))
            /\ NamedParty(BuildTxn(row, input.mappings))
            /\ CarriesAmount(BuildTxn(row, input.mappings))
        skippedNonEmpty ==
            {i \in PassedRows :
                NonEmptyRow(input.rows[i]) /\ ~emitted(input.rows[i])}
    IN  /\ pc \in {"template_rows", "template_done"} =>
               /\ Len(errors) = Cardinality(skippedNonEmpty)
               /\ \A k \in 1..Len(errors) :
                      /\ errors[k].row \in skippedNonEmpty
                      /\ errors[k].reason # NoneS
                      /\ \A j \in 1..(k - 1) : errors[j].row < errors[k].row
        /\ Succeeded =>
               /\ Len(result.errors) = Min(50, Len(errors))
               /\ Len(result.errors) <= 50
               /\ Len(result.errors) <= result.rows_skipped
               /\ \A k \in 1..Len(result.errors) : result.errors[k] = errors[k]

C12_Witness ==
    /\ pc = "template_done"
    /\ Succeeded
    /\ result.rows_skipped = 52
    /\ Len(errors) = 52
    /\ Len(result.errors) = 50
    /\ result.errors[50].row = 50

\* a table of a recognised header row and data rows that are valid but for
\* the k-th, which has a narration or merchant and an amount and no date
OtherwiseValid(row) ==
    /\ ~RowRaises(input.mappings)
    /\ NamedParty(BuildTxn(row, input.mappings))
    /\ CarriesAmount(BuildTxn(row, input.mappings))

OneDatelessRow(k) ==
    /\ Len(input.rows) >= 3
    /\ Len(input.rows) <= MaxDocRows + 1
    /\ IsHeaderRow(input.rows[1])
    /\ k \in 1..(Len(input.rows) - 1)
    /\ \A i \in 2..Len(input.rows) :
           /\ OtherwiseValid(input.rows[i])
           /\ ResolvedDate(BuildTxn(input.rows[i], input.mappings)) <=> i # k + 1

\* the transactions of the data rows other than the k-th, in their order
OtherRows(k) ==
    LET kept == SelectSeq([i \in 1..(Len(input.rows) - 1) |-> i],
                          LAMBDA i : i # k)
    IN  [j \in 1..Len(kept) |-> BuildTxn(input.rows[kept[j] + 1], input.mappings)]

\* the statement of C13 as the claim has it: the entry references row k
C13_Original ==
    \A k \in 1..MaxDocRows :
        (pc = "template_done" /\ OneDatelessRow(k)) =>
            /\ result.transactions = OtherRows(k)
            /\ Len(result.errors) = 1
            /\ result.errors[1].row = k

\* C13: for a table of a header row the keyword test recognises and N data
\* rows, valid but for the k-th which has no date, the player returns the
\* transactions of the other N - 1 rows in their order and exactly one error
\* entry, "Missing or invalid date", whose row index is k + 1: the position
\* of the row in the table, the header row counted.
C13_RowSkipTolerance ==
    \A k \in 1..MaxDocRows :
        (pc = "template_done" /\ OneDatelessRow(k)) =>
            /\ result.transactions = OtherRows(k)
            /\ Len(result.errors) = 1
            /\ result.errors[1] = RowError(k + 1, "Missing or invalid date")
            /\ result.rows_skipped = 1

C13_Witness ==
    /\ pc = "template_done"
    /\ OneDatelessRow(1)
    /\ Len(input.rows) = 3
    /\ Len(result.transactions) = 1
    /\ result.errors = << RowError(2, "Missing or invalid date") >>

-----------------------------------------------------------------------------
(* Claims about the value normalizers (SpecValues) *)

NumericInput(cell) == cell.kind \in {"num", "amount"}

Negated(cell) ==
    \/ cell.kind = "num" /\ cell.num < 0
    \/ cell.kind = "amount"
       /\ (HasMark(cell, "(") \/ HasMark(cell, "-") \/ HasMark(cell, "DR"))

Credited(cell) == cell.kind = "amount" /\ HasMark(cell, "CR")

\* C18: parse_amount of a numeric text with a trailing DR, a leading minus
\* or enclosing parentheses is <= 0; with a trailing CR it is >= 0; with
\* none of these it is the plain magnitude; and of an empty text or one with
\* non-numeric residue it is None.
C18_SignRules ==
    pc = "parsed_amount" =>
        /\ (NumericInput(input) /\ Negated(input)) =>
               result.value # None /\ result.value <= 0
        /\ (NumericInput(input) /\ Credited(input)) =>
               result.value # None /\ result.value >= 0
        /\ (NumericInput(input) /\ ~Negated(input) /\ ~Credited(input)) =>
               result.value = input.num
        /\ ~NumericInput(input) => result.value = None

\* the non-empty cells among the first 20 of the column, and how many of
\* them are of one kind of value
Sampled == {i \in 1..Min(20, Len(input)) : input[i].kind # "none"}

KindOf(cell) ==
    IF cell.kind = "date" THEN "date"
    ELSE IF cell.kind = "num" /\ Abs(cell.num) < 1000 * Scale THEN "amount"
    ELSE IF cell.kind = "num" THEN "number"
    ELSE IF cell.kind = "text" THEN "text"
    ELSE "unknown"

Votes(t) == Cardinality({i \in Sampled : KindOf(input[i]) = t})

FirstVote(t) == CHOOSE i \in Sampled :
    KindOf(input[i]) = t /\ \A j \in Sampled : j < i => KindOf(input[j]) # t

\* C19: the type of a column is the value type with the most cells among the
\* non-empty cells of the first 20 data rows, on a tie the tied type met
\* first, and unknown when none of those cells is non-empty.
C19_MajorityVote ==
    pc = "voted" =>
        IF Sampled = {} THEN result.type = "unknown"
        ELSE /\ Votes(result.type) > 0
             /\ \A t \in {"date", "amount", "number", "text", "unknown"} :
                    \/ t = result.type
                    \/ Votes(t) < Votes(result.type)
                    \/ /\ Votes(t) = Votes(result.type)
                       /\ FirstVote(result.type) < FirstVote(t)

C19_Witness ==
    /\ pc = "voted"
    /\ Len(input) = 32
    /\ Votes("amount") = 10
    /\ Votes("text") = 10
    /\ KindOf(input[1]) = "amount"
    /\ KindOf(input[21]) = "text"
    /\ result.type = "amount"

-----------------------------------------------------------------------------
(* Claims about the balances of the HDFC metadata (SpecMain) *)

\* C20: with a non-empty reconciled list, closingBalance is the balance of
\* its last transaction, and when its first transaction has a balance and an
\* amount, openingBalance is balance + amount for a debit and
\* balance - amount for a credit.
C20_BalanceBackFill ==
    (pc = "hdfc_main_filled" /\ transactions # <<>>) =>
        LET first == transactions[1]
            last == transactions[Len(transactions)]
        IN  /\ metadata.closingBalance = last.balance
            /\ (first.balance # None /\ first.amount # None) =>
                   metadata.openingBalance =
                       IF first.transactionType = "debit"
                       THEN first.balance + first.amount
                       ELSE first.balance - first.amount

-----------------------------------------------------------------------------
(* Claims about whole invocations (SpecInvoke) *)

Terminated == pc \in {"exited", "crashed"}

\* C14: every invocation ends with exactly one JSON document on standard
\* output, and either a success document with exit status 0 or a document
\* carrying an error with a non-zero exit status.
C14_ExitSignalling ==
    Terminated =>
        /\ Len(stdout) = 1
        /\ \/ stdout[1].error = NoneS /\ stdout[1].success # "false"
                /\ exit_status = 0
           \/ stdout[1].error # NoneS /\ exit_status # 0 /\ exit_status # None

\* C15: an HDFC or Kotak invocation on a document that opens and has a first
\* page ends with success=true, whatever its lines and rows hold.
C15_RowIssuesNeverAbort ==
    (Terminated /\ input.program \in {"hdfc", "kotak"} /\ input.argc_ok
        /\ input.document = "pages") =>
            /\ Len(stdout) = 1
            /\ stdout[1].success = "true"
            /\ exit_status = 0

\* C16: no terminated invocation leaves a handle open, and the second handle
\* of the Kotak parser is acquired only after the first was released.
C16_HandlesReleased ==
    /\ Terminated => \A h \in DOMAIN handles : handles[h] = "released"
    /\ \A h \in DOMAIN handles : \A g \in DOMAIN handles :
           (g < h) => handles[g] = "released"

C16_Witness ==
    /\ pc = "exited"
    /\ input.program = "kotak"
    /\ DOMAIN handles = {1, 2}
    /\ exit_status = 1
    /\ stdout[1].success = "false"

-----------------------------------------------------------------------------
(* Claims about the order and the frame of the reconciliation (SpecRecon) *)

Reconciled == pc \in {"kotak_again", "hdfc_again"}

\* C21: the output of the reconciliation holds the dated records first, in
\* ascending order of date, then the undated records, each of them one of
\* the input records unchanged; no record is added or lost.
C21_Ordering ==
    Reconciled =>
        /\ Len(pass1) = Len(input)
        /\ \A i \in 1..Len(pass1) : \A j \in 1..Len(pass1) :
               (i < j) =>
                   /\ (pass1[i].date # None /\ pass1[j].date # None)
                          => pass1[i].date <= pass1[j].date
                   /\ pass1[i].date = None => pass1[j].date = None
        /\ \A i \in 1..Len(pass1) :
               pass1[i].date = None =>
                   \E k \in 1..Len(input) : input[k] = pass1[i]

\* C22: after the Kotak pass a record carries amountCorrected exactly when
\* its amount was replaced; then originalAmount is the amount it had and
\* amount is |balance[i-1] - balance[i]|; a record within the tolerance of
\* that difference keeps its amount and gets neither field.
C22_AuditTrail ==
    pc = "kotak_again" =>
        \A i \in 1..Len(input) :
            /\ pass1[i].amountCorrected <=> pass1[i].amount # input[i].amount
            /\ pass1[i].amountCorrected =>
                   /\ BothBalances(input, i)
                   /\ pass1[i].originalAmount = input[i].amount
                   /\ pass1[i].amount = Delta(input, i)
            /\ ~pass1[i].amountCorrected => pass1[i].originalAmount = None
            /\ (BothBalances(input, i)
                  /\ Abs(Delta(input, i) - input[i].amount) <= Tolerance * Scale)
                   => /\ pass1[i].amount = input[i].amount
                      /\ ~pass1[i].amountCorrected

C22_Witness ==
    /\ pc = "kotak_again"
    /\ Len(input) = 3
    /\ pass1[2].amountCorrected
    /\ pass1[2].originalAmount = 1000
    /\ pass1[2].amount = 1
    /\ BothBalances(input, 3)
    /\ Delta(input, 3) # input[3].amount
    /\ ~pass1[3].amountCorrected

\* C23: a record whose own balance or whose immediate predecessor's balance
\* is missing leaves the pass with the amount and the transactionType it had,
\* also when an earlier record has a balance.
C23_MissingBalanceUntouched ==
    /\ pc = "kotak_again" =>
           \A i \in 2..Len(input) :
               ~BothBalances(input, i) =>
                   /\ pass1[i].amount = input[i].amount
                   /\ pass1[i].transactionType = input[i].transactionType
    /\ pc = "hdfc_again" =>
           \A i \in 2..Len(HdfcSortedInput) :
               ~BothBalances(HdfcSortedInput, i) =>
                   /\ pass1[i].amount = HdfcSortedInput[i].amount
                   /\ pass1[i].transactionType =
                          HdfcSortedInput[i].transactionType

\* a credit of 100.0 after a record without balance, two records after a
\* higher balance and 10 away from it
C23_Witness ==
    /\ pc = "kotak_again"
    /\ Len(input) = 3
    /\ input[1].balance = 200
    /\ input[2].balance = None
    /\ input[3].balance = 100
    /\ input[3].transactionType = "credit"
    /\ input[3].amount = 1000
    /\ pass1[3] = input[3]

-----------------------------------------------------------------------------
(* Claims about the returned ledger of the Kotak pipeline (SpecSweep) *)

\* the `transactions` list main receives from handle_sweep_transfers
Ledger == [k \in 1..Len(regular_transactions) |->
              transactions[regular_transactions[k]]]

\* C24: in the returned list of regular transactions, of two adjacent
\* transactions that both have a balance a credit has a balance not below
\* its predecessor's and a debit a balance not above it.
C24_LedgerTypeFollowsBalance ==
    pc = "swept" =>
        \A k \in 2..Len(Ledger) :
            (Ledger[k - 1].balance # None /\ Ledger[k].balance # None) =>
                /\ Ledger[k].transactionType = "credit"
                       => Ledger[k].balance >= Ledger[k - 1].balance
                /\ Ledger[k].transactionType = "debit"
                       => Ledger[k].balance <= Ledger[k - 1].balance

-----------------------------------------------------------------------------
(* Claims about the flagger applied to single records (SpecValues) *)

\* the integer form of the amount starts with two identical digits
TwoSameDigits(a) ==
    \E d \in 1..9 : \E e \in 0..6 :
        LET p == 10 ^ e
        IN  (Abs(a) \div Scale) \div p = 11 * d

IsLarge(a) == a > 1000000 * Scale

Flagged == result.transactions[1].suspicious

Trusted(t) ==
    [t EXCEPT !.transactionType = "debit", !.date = None,
              !.description = PlainDesc]

\* a record without its transactionType
Untyped(t) == [t EXCEPT !.transactionType = "debit"]

Occurrences(txns, r, F(_)) == Cardinality({i \in 1..Len(txns) : F(txns[i]) = r})

\* C26: the HDFC pass returns the records it was given, each with the amount,
\* the balance and the correction fields it had; only transactionType and
\* the order may differ, and date and description only for a record that
\* came without a date.
C26_AmountTrusted ==
    pc = "hdfc_again" =>
        /\ Len(pass1) = Len(input)
        /\ \A i \in 1..Len(input) :
               /\ Occurrences(pass1, Trusted(input[i]), Trusted)
                      = Occurrences(input, Trusted(input[i]), Trusted)
               /\ input[i].date # None =>
                      Occurrences(pass1, Untyped(input[i]), Untyped)
                          >= Occurrences(input, Untyped(input[i]), Untyped)
        /\ \A i \in 1..Len(pass1) :
               ~pass1[i].amountCorrected /\ pass1[i].originalAmount = None

\* 10.0 moves the balance of a line that carries the amount 100.0, and the
\* later line is listed first
C26_Witness ==
    /\ pc = "hdfc_again"
    /\ Len(input) = 2
    /\ input[1].date > input[2].date
    /\ input[1] # pass1[1]
    /\ pass1[2].amount = 1000
    /\ pass1[2].balance = 100
    /\ pass1[1].balance = 200
    /\ pass1[2].transactionType = "debit"

-----------------------------------------------------------------------------
(* Claims about the header boundary of the template player (SpecPlayer) *)

\* the keyword of the learner's list that a word of the model's cells contains
KeywordIn ==
    [Date |-> "date", Amount |-> "amount", Balance |-> "balance",
     Narration |-> "narration", Description |-> "description",
     Debit |-> "debit", Credit |-> "credit", CREDIT |-> "credit",
     Withdrawal |-> "withdrawal", Deposit |-> "deposit"]

\* the number of keywords found in a row
KeywordHits(row) ==
    Cardinality({KeywordIn[w] : w \in
        {v \in DOMAIN KeywordIn :
            \E i \in 1..Len(row) : \E k \in 1..Len(row[i].words) :
                row[i].words[k] = v}})

\* the boundary as the claim has it: after the first of the first 5 rows
\* with at least 2 keyword hits, 0 if there is none
ClaimedBoundary ==
    LET scanned == 1..Min(5, Len(input.rows))
    IN  IF \E i \in scanned : KeywordHits(input.rows[i]) >= 2
        THEN CHOOSE i \in scanned :
                 /\ KeywordHits(input.rows[i]) >= 2
                 /\ \A j \in 1..(i - 1) : KeywordHits(input.rows[j]) < 2
        ELSE 0

\* C27: the player starts at the row after the first of the first 5 rows
\* that has at least 2 header keywords, and at row 0 when there is none;
\* rows_processed counts the rows after that boundary and no transaction
\* comes from a row at or before it.
C27_HeaderBoundary ==
    pc = "template_done" =>
        /\ start_row = ClaimedBoundary
        /\ result.rows_processed = Len(input.rows) - ClaimedBoundary
        /\ Len(result.transactions) <= Len(input.rows) - ClaimedBoundary

-----------------------------------------------------------------------------
(* Claims about the HDFC line extractor applied to single lines (SpecValues) *)

\* the withdrawal and the deposit of the line as the claim resolves them,
\* None for one that is not resolved
ClaimedWithdrawal ==
    LET before == HdfcLineAmounts(input)
    IN  IF Len(before) = 2
          THEN (IF before[1] = 0 THEN None ELSE before[1])
        ELSE IF Len(before) = 1 /\ input.narration # CreditDesc THEN before[1]
        ELSE None

ClaimedDeposit ==
    LET before == HdfcLineAmounts(input)
    IN  IF Len(before) = 2
          THEN (IF before[2] = 0 THEN None ELSE before[2])
        ELSE IF Len(before) = 1 /\ input.narration = CreditDesc THEN before[1]
        ELSE None

\* C28: the record a line yields is a debit with the withdrawal as its amount
\* exactly when a withdrawal was resolved (the first of two tokens before the
\* balance unless zero; the only token when the description has no credit
\* keyword), else a credit with the deposit as its amount.
C28_DebitCreditDisambiguation ==
    (pc = "line_extracted" /\ result.transactions # <<>>) =>
        LET txn == result.transactions[1]
        IN  IF ClaimedWithdrawal # None
            THEN txn.transactionType = "debit" /\ txn.amount = ClaimedWithdrawal
            ELSE txn.transactionType = "credit" /\ txn.amount = ClaimedDeposit

\* C29: after the Kotak pass every adjacent pair with both balances whose
\* balance difference is above 0 and below 10,000,000 has an amount within 1
\* of that difference, whatever amount was extracted.
C29_BalanceContinuity ==
    pc = "kotak_again" =>
        \A i \in 2..Len(input) :
            (/\ BothBalances(input, i)
             /\ 0 < Delta(input, i)
             /\ Delta(input, i) < 10000000 * Scale)
                => Abs(pass1[i].amount - Delta(pass1, i)) <= 1 * Scale

\* the amount 100.0 is replaced between the balances 10,000,000.0 and 5,000.0
\* and kept between 0 and 10,000,000.0
C29_Witness ==
    /\ pc = "kotak_again"
    /\ Len(input) = 3
    /\ input[1].balance = 0
    /\ input[2].balance = 10000000 * Scale
    /\ input[3].balance = 5000 * Scale
    /\ pass1[2].amount = 100 * Scale
    /\ pass1[3].amount = 9995000 * Scale
    /\ pass1[3].amountCorrected

\* record i of the input after a record that has nothing of record i-1 but
\* its balance
IsolatedPair(i) ==
    << [input[i] EXCEPT !.balance = input[i - 1].balance,
                        !.amount = 1 * Scale,
                        !.transactionType = "credit"],
       input[i] >>

\* C30: the Kotak pass changes no balance, and what it returns for record i
\* is what it returns for record i placed after a record that shares only
\* the balance of record i-1: nothing else of the sequence has a part in it.
C30_Locality ==
    pc = "kotak_again" =>
        /\ \A i \in 1..Len(input) : pass1[i].balance = input[i].balance
        /\ \A i \in 2..Len(input) :
               pass1[i] = validate_with_balance(IsolatedPair(i))[2]
        /\ Len(input) >= 1 => pass1[1] = input[1]

\* records 2 and 3 are both corrected, each against its own predecessor
C30_Witness ==
    /\ pc = "kotak_again"
    /\ Len(input) = 3
    /\ pass1[2].amountCorrected
    /\ pass1[3].amountCorrected
    /\ pass1[2].amount # pass1[3].amount
    /\ input[2].amount = input[3].amount

=============================================================================
